---- MODULE Spec2Model ----
(***************************************************************************)
(* A model of the document indexing service: the TLV wire codec, the       *)
(* fixed-record document store, the parallel keyword scan, the LRU         *)
(* response cache with its persistence file, and the request dispatcher.   *)
(***************************************************************************)
EXTENDS Integers, Sequences, FiniteSets, TLC

(***************************************************************************)
(* Status codes (include/common/status.h)                                  *)
(***************************************************************************)
OS_OK == 0
OS_ERROR == -1
OS_AGAIN == -2
OS_SHUTDOWN == -3

(***************************************************************************)
(* Wire constants (include/common/protocol.h, include/common/commands.h)   *)
(***************************************************************************)
REQ_MAX == 65535
RSP_MAX == 65535
UINT16_MAX == 65535
TLV_HDR_SZ == 3
REQ_HDR_SZ == 7
RSP_HDR_SZ == 4
ARG_U32 == 0
ARG_STR == 1
ARG_COUNT == 2
OP_A == 0
OP_C == 1
OP_D == 2
OP_L == 3
OP_S == 4
OP_F == 5
OP_COUNT == 6

(***************************************************************************)
(* Bounds of the codec model                                               *)
(***************************************************************************)
MaxTlvs == 3
MaxValLen == 2
MaxBuf == 6

Min(a, b) == IF a < b THEN a ELSE b
Max(a, b) == IF a > b THEN a ELSE b

\* Sequences over S of length at most n.
SeqsUpTo(S, n) == UNION {[1..k -> S] : k \in 0..n}

\* The byte at 0-based offset i of a memory region whose written prefix is
\* mem; the frames are memset to zero before they are filled.
ByteAt(mem, i) == IF i < Len(mem) THEN mem[i + 1] ELSE 0

\* n bytes of a memory region starting at 0-based offset off.
Bytes(mem, off, n) == [i \in 1..n |-> ByteAt(mem, off + i - 1)]

\* A zero-filled value of n bytes.
Zeros(n) == [i \in 1..n |-> 0]

\* Little-endian 16-bit field.
LE16(n) == <<n % 256, (n \div 256) % 256>>
RdLE16(mem, off) == ByteAt(mem, off) + 256 * ByteAt(mem, off + 1)

VARIABLES
  ppc,        \* codec scenario position: "build", "cursor"
  frame,      \* the frame under construction: kind, hdr, payload bytes
  bld,        \* proto_builder_t: used, cap (buf aliases frame.payload)
  added,      \* the TLVs accepted by proto_add_tlv, in order
  addFailed,  \* some proto_add_tlv call was rejected
  cmem,       \* the memory the cursor walks
  cursor,     \* proto_cursor_t: cur, end as offsets into cmem
  yielded,    \* the TLVs the cursor has yielded, in order
  outcomes,   \* the status of every proto_cursor_next call, in order
  touched     \* offsets of cmem read by the cursor or exposed in a value

VARIABLES
  file,       \* tmp/index.bin as a sequence of document_t rows
  fpos,       \* offset of the store descriptor, in records
  addRets,    \* keys returned by the successful stg_add_doc calls, in order
  deleted,    \* keys on which stg_del_doc has succeeded
  lastOp      \* the last store call: op, key, rc, out, store before the call

storeVars == <<file, fpos, addRets, deleted, lastOp>>

VARIABLES
  spc,        \* handle_s / scan_parallel position of the scanning process
  sreq,       \* the scan's inputs: kw, requested workers, cpus
  stotal,     \* total, as read by handle_s
  sworkers,   \* workers after the clamps of scan_parallel
  snext,      \* index of the next worker to fork or to wait for
  next_key,   \* the shared counter
  bmp,        \* the shared bitmap, byte index -> byte
  wpc,        \* per worker: position in the worker loop
  wk,         \* per worker: the key k it fetched
  wbyte,      \* per worker: the bitmap byte it loaded for the |=
  smaps,      \* the shared mappings of the scan that are still mapped
  sgot,       \* the results of __sync_fetch_and_add, in order: worker, k
  sfound,     \* keys for which a worker's doc_key_contains_keyword gave 1
  src         \* return value of handle_s' scan, once it returned

scanVars == <<spc, sreq, stotal, sworkers, snext, next_key, bmp, wpc, wk,
              wbyte, sfound, smaps, sgot, src>>

VARIABLES
  cache,      \* cache_lru.c statics: ht (init: ht is not NULL), nodes (the
              \* heap of entry_t), head, tail, cap, count
  disk,       \* tmp/cache_lru.bin: whether it exists, and its bytes
  recency,    \* keys accessed by a Get hit or a Put since Init, latest first
  lastCache,  \* the last cache call: op, key, rc, out, evicted, list before
  trail       \* progress of the sequence Put(k,v); Cleanup; Init; Get(k)

cacheVars == <<cache, disk, recency, lastCache, trail>>

VARIABLES
  srv,        \* dserver: "off" (not part of the scenario), "down", "serving"
  nreq,       \* passes of the serve loop so far
  pass,       \* the last pass of the serve loop: its number since the boot,
              \* the request read, the path taken, the frames delivered,
              \* the workers forked, the cache insertions, the handler's rc
  answered,   \* cache key -> the frame last received from a worker for an S
              \* request with that key (what cache_put was given)
  halt        \* what main did after serve_requests returned

serverVars == <<srv, nreq, pass, answered, halt>>

VARIABLES
  loop,       \* the serve loop step by step: position of the parent, the
              \* worker it forked, the pipe, and what was read and delivered
  codec,      \* a u32 argument taken through enc_u32 and dec_u32
  matcher,    \* a document content and a term given to the matcher
  cli,        \* a run of dclient: what fails, and the exit status
  rd,         \* a call of txp_read: what was asked, what read() returned
  clamp,      \* the worker count of a scan: the inputs and the result
  lfifo       \* the listen FIFO: its bytes, its writers and its reader
auxVars == <<loop, codec, matcher, cli, rd, clamp, lfifo>>

protoVars == <<ppc, frame, bld, added, addFailed, cmem, cursor, yielded,
               outcomes, touched>>

vars == <<protoVars, storeVars, scanVars, cacheVars, serverVars, auxVars>>

nonProtoVars == <<storeVars, scanVars, cacheVars, serverVars, auxVars>>
nonStoreVars == <<protoVars, scanVars, cacheVars, serverVars, auxVars>>
nonScanVars == <<protoVars, cacheVars, serverVars, auxVars>>
nonCacheVars == <<protoVars, storeVars, scanVars, serverVars, auxVars>>
nonServerVars == <<protoVars, scanVars, addRets, deleted, lastOp, recency,
                   lastCache, trail, auxVars>>
nonAuxVars == <<protoVars, storeVars, scanVars, cacheVars, serverVars>>

(***************************************************************************)
(* Wire codec (src/common/protocol.c)                                      *)
(***************************************************************************)
check_cap(total, cap) == IF total > cap THEN OS_ERROR ELSE OS_OK

proto_req_init(op, pid) ==
  [frame |-> [kind |-> "req",
              hdr |-> [len |-> 0, opcode |-> op, pid |-> pid],
              payload |-> <<>>],
   bld |-> [used |-> 0, cap |-> REQ_MAX - REQ_HDR_SZ]]

proto_rsp_init(op, status) ==
  [frame |-> [kind |-> "rsp",
              hdr |-> [len |-> 0, opcode |-> op, status |-> status],
              payload |-> <<>>],
   bld |-> [used |-> 0, cap |-> RSP_MAX - RSP_HDR_SZ]]

\* The packed tlv_t header followed by the value.
TlvBytes(type, val) == <<type>> \o LE16(Len(val)) \o val

\* proto_add_tlv advancing used by the value length only.
proto_add_tlv_nohdr(b, payload, type, val) ==
  IF Len(val) > UINT16_MAX
    THEN [rc |-> OS_ERROR, bld |-> b, payload |-> payload]
  ELSE IF b.used + (TLV_HDR_SZ + Len(val)) > b.cap
    THEN [rc |-> OS_ERROR, bld |-> b, payload |-> payload]
  ELSE [rc |-> OS_OK,
        bld |-> [b EXCEPT !.used = b.used + Len(val)],
        payload |-> Bytes(payload, 0, b.used) \o TlvBytes(type, val)]

\* Result: rc, the builder and the payload region after the call.
proto_add_tlv(b, payload, type, val) ==
  IF Len(val) > UINT16_MAX
    THEN [rc |-> OS_ERROR, bld |-> b, payload |-> payload]
  ELSE IF b.used + (TLV_HDR_SZ + Len(val)) > b.cap
    THEN [rc |-> OS_ERROR, bld |-> b, payload |-> payload]
  ELSE [rc |-> OS_OK,
        bld |-> [b EXCEPT !.used = b.used + (TLV_HDR_SZ + Len(val))],
        payload |-> Bytes(payload, 0, b.used) \o TlvBytes(type, val)]

proto_req_finish(f, b) ==
  IF check_cap(REQ_HDR_SZ + b.used, REQ_MAX) = OS_ERROR
    THEN [rc |-> OS_ERROR, frame |-> f]
    ELSE [rc |-> OS_OK,
          frame |-> [f EXCEPT !.hdr.len = (REQ_HDR_SZ + b.used) % 65536]]

proto_rsp_finish(f, b) ==
  IF check_cap(RSP_HDR_SZ + b.used, RSP_MAX) = OS_ERROR
    THEN [rc |-> OS_ERROR, frame |-> f]
    ELSE [rc |-> OS_OK,
          frame |-> [f EXCEPT !.hdr.len = (RSP_HDR_SZ + b.used) % 65536]]

proto_cursor_init(len) == [cur |-> 0, end |-> len]

\* proto_cursor_next without the overrun check on the TLV length.
proto_cursor_next_nocheck(c, mem) ==
  IF c.cur + TLV_HDR_SZ > c.end
    THEN [st |-> OS_OK, cursor |-> c, reads |-> {}]
  ELSE LET tlen == RdLE16(mem, c.cur + 1)
           need == TLV_HDR_SZ + tlen
       IN  [st |-> OS_AGAIN,
            cursor |-> [c EXCEPT !.cur = c.cur + need],
            reads |-> {c.cur, c.cur + 1, c.cur + 2},
            type |-> ByteAt(mem, c.cur),
            voff |-> c.cur + TLV_HDR_SZ,
            vlen |-> tlen]

\* One step of the cursor over mem.  reads: the offsets of mem the step
\* dereferences; val is the slice the returned pointer and length expose.
proto_cursor_next(c, mem) ==
  IF c.cur + TLV_HDR_SZ > c.end
    THEN [st |-> OS_OK, cursor |-> c, reads |-> {}]
  ELSE LET tlen == RdLE16(mem, c.cur + 1)
           need == TLV_HDR_SZ + tlen
       IN  IF c.cur + need > c.end
             THEN [st |-> OS_ERROR, cursor |-> c,
                   reads |-> {c.cur + 1, c.cur + 2}]
             ELSE [st |-> OS_AGAIN,
                   cursor |-> [c EXCEPT !.cur = c.cur + need],
                   reads |-> {c.cur, c.cur + 1, c.cur + 2},
                   type |-> ByteAt(mem, c.cur),
                   voff |-> c.cur + TLV_HDR_SZ,
                   vlen |-> tlen]

HdrSize(f) == IF f.kind = "req" THEN REQ_HDR_SZ ELSE RSP_HDR_SZ

\* Every caller passes a message (msg is never the null pointer); the
\* results of proto_add_tlv and proto_rsp_finish are not looked at.
proto_build_simple_rsp(op, msg) ==
  LET i == proto_rsp_init(op, 0)
      a == proto_add_tlv(i.bld, i.frame.payload, ARG_STR, msg)
  IN  proto_rsp_finish([i.frame EXCEPT !.payload = a.payload], a.bld).frame

\* The first n bytes of a response_t in memory: the packed header, then the
\* payload region.
RspBytes(rsp, n) ==
  Bytes(LE16(rsp.hdr.len) \o <<rsp.hdr.opcode, rsp.hdr.status>>
          \o rsp.payload, 0, n)

\* The response_t whose first Len(bs) bytes are bs (the rest reads as zero).
RspFromBytes(bs) ==
  [kind |-> "rsp",
   hdr |-> [len |-> RdLE16(bs, 0), opcode |-> ByteAt(bs, 2),
            status |-> ByteAt(bs, 3)],
   payload |-> Bytes(bs, RSP_HDR_SZ, Max(Len(bs) - RSP_HDR_SZ, 0))]

(***************************************************************************)
(* Document store (src/server/storage.c); offsets are counted in records   *)
(***************************************************************************)
MaxRows == 3

\* The zero-filled record stg_del_doc writes, key = -1.
Tombstone == [key |-> -1, title |-> <<>>, authors |-> <<>>, path |-> <<>>,
              year |-> 0]

\* lseek(stg_fd, 0, SEEK_END)
SeekEnd(f) == Len(f)

\* read(stg_fd, out, sizeof *out) at offset pos: one record, or a short read
\* at end of file.
ReadRec(f, pos) ==
  IF pos < Len(f) THEN [n |-> 1, rec |-> f[pos + 1], pos |-> pos + 1]
                  ELSE [n |-> 0, rec |-> Tombstone, pos |-> pos]

\* write(stg_fd, rec, sizeof *rec) at offset pos.
WriteRec(f, pos, rec) ==
  IF pos < Len(f) THEN [f EXCEPT ![pos + 1] = rec] ELSE Append(f, rec)

get_offset(key) == key

\* stg_add_doc writing the caller's record without stamping the key.
stg_add_doc_nostamp(f, doc) ==
  LET end_off == SeekEnd(f)
      key == end_off
  IN  [rc |-> key, file |-> WriteRec(f, end_off, doc), fpos |-> end_off + 1]

stg_add_doc(f, doc) ==
  LET end_off == SeekEnd(f)
      key == end_off
      tmp == [doc EXCEPT !.key = key]
  IN  [rc |-> key, file |-> WriteRec(f, end_off, tmp), fpos |-> end_off + 1]

stg_get_doc(f, pos, key) ==
  IF key < 0 THEN [rc |-> OS_ERROR, fpos |-> pos, out |-> Tombstone]
  ELSE LET end_off == SeekEnd(f) IN
    IF get_offset(key) + 1 > end_off
      THEN [rc |-> OS_ERROR, fpos |-> end_off, out |-> Tombstone]
    ELSE LET r == ReadRec(f, get_offset(key)) IN
      IF r.n # 1 THEN [rc |-> OS_ERROR, fpos |-> r.pos, out |-> r.rec]
      ELSE IF r.rec.key # key
        THEN [rc |-> OS_ERROR, fpos |-> r.pos, out |-> r.rec]
        ELSE [rc |-> OS_OK, fpos |-> r.pos, out |-> r.rec]

\* stg_del_doc overwriting the row with a zero-filled record (key 0).
stg_del_doc_zero(f, pos, key) ==
  IF key < 0 THEN [rc |-> OS_ERROR, file |-> f, fpos |-> pos]
  ELSE LET end_off == SeekEnd(f) IN
    IF get_offset(key) + 1 > end_off
      THEN [rc |-> OS_ERROR, file |-> f, fpos |-> end_off]
    ELSE LET off == get_offset(key)
             r == ReadRec(f, off) IN
      IF r.n # 1 THEN [rc |-> OS_ERROR, file |-> f, fpos |-> r.pos]
      ELSE IF r.rec.key # key
        THEN [rc |-> OS_ERROR, file |-> f, fpos |-> r.pos]
        ELSE [rc |-> OS_OK,
              file |-> WriteRec(f, off, [Tombstone EXCEPT !.key = 0]),
              fpos |-> off + 1]

stg_del_doc(f, pos, key) ==
  IF key < 0 THEN [rc |-> OS_ERROR, file |-> f, fpos |-> pos]
  ELSE LET end_off == SeekEnd(f) IN
    IF get_offset(key) + 1 > end_off
      THEN [rc |-> OS_ERROR, file |-> f, fpos |-> end_off]
    ELSE LET off == get_offset(key)
             r == ReadRec(f, off) IN
      IF r.n # 1 THEN [rc |-> OS_ERROR, file |-> f, fpos |-> r.pos]
      ELSE IF r.rec.key # key
        THEN [rc |-> OS_ERROR, file |-> f, fpos |-> r.pos]
        ELSE [rc |-> OS_OK, file |-> WriteRec(f, off, Tombstone),
              fpos |-> off + 1]

stg_total(f) == SeekEnd(f)

(***************************************************************************)
(* Store scenarios: any sequence of Add, Get and Delete on an empty store  *)
(***************************************************************************)
\* The documents a caller may hand to stg_add_doc; the key field is whatever
\* the caller left there.
DocPaths == {<<97>>, <<98>>}
NewDocs == [key : {0, 7}, title : {<<84>>}, authors : {<<65>>},
            path : DocPaths, year : {2020}]
StoreKeys == (-1)..MaxRows

NoOp == [op |-> "none", key |-> 0, rc |-> 0, out |-> Tombstone,
         before |-> <<>>]

StoreIdle ==
  /\ file = <<>> /\ fpos = 0 /\ addRets = <<>> /\ deleted = {}
  /\ lastOp = NoOp

StgAdd ==
  /\ Len(file) < MaxRows
  /\ \E doc \in NewDocs :
       LET r == stg_add_doc(file, doc)
       IN  /\ file' = r.file
           /\ fpos' = r.fpos
           /\ addRets' = Append(addRets, r.rc)
           /\ lastOp' = [op |-> "add", key |-> r.rc, rc |-> r.rc,
                         out |-> Tombstone, before |-> file]
  /\ UNCHANGED deleted
  /\ UNCHANGED nonStoreVars

StgGet ==
  /\ \E key \in StoreKeys :
       LET r == stg_get_doc(file, fpos, key)
       IN  /\ fpos' = r.fpos
           /\ lastOp' = [op |-> "get", key |-> key, rc |-> r.rc,
                         out |-> r.out, before |-> file]
  /\ UNCHANGED <<file, addRets, deleted>>
  /\ UNCHANGED nonStoreVars

StgDel ==
  /\ \E key \in StoreKeys :
       LET r == stg_del_doc(file, fpos, key)
       IN  /\ file' = r.file
           /\ fpos' = r.fpos
           /\ deleted' = IF r.rc = OS_OK THEN deleted \cup {key} ELSE deleted
           /\ lastOp' = [op |-> "del", key |-> key, rc |-> r.rc,
                         out |-> Tombstone, before |-> file]
  /\ UNCHANGED addRets
  /\ UNCHANGED nonStoreVars

(***************************************************************************)
(* Keyword matcher (src/server/doc/docutil.c)                              *)
(***************************************************************************)
NL == 10

\* The files under the document root: path -> content.
DocRoot(path) ==
  IF path = <<97>> THEN <<120, 121, NL>>
  ELSE IF path = <<98>> THEN <<121, NL, 122>>
  ELSE <<>>
DocExists(path) == path \in {<<97>>, <<98>>}

\* The byte loop of doc_count_keyword from the i-th byte of buf on; st holds
\* match, matched_line, out and whether the early exit was taken.
RECURSIVE CountLoop(_, _, _, _, _)
CountLoop(buf, i, kw, stop_at_first, st) ==
  IF i > Len(buf) \/ st.early THEN st
  ELSE LET c == buf[i]
           hit == (c = kw[st.match + 1])
           done == hit /\ st.match + 1 = Len(kw)
           m1 == IF hit THEN (IF done THEN 0 ELSE st.match + 1)
                 ELSE (IF c = kw[1] THEN 1 ELSE 0)
           ml1 == IF done THEN 1 ELSE st.matched_line
       IN  IF done /\ stop_at_first
             THEN [st EXCEPT !.match = 0, !.matched_line = 1, !.out = 1,
                             !.early = TRUE]
           ELSE IF c = NL
             THEN CountLoop(buf, i + 1, kw, stop_at_first,
                    [st EXCEPT !.match = m1, !.matched_line = 0,
                               !.out = st.out + (IF ml1 = 1 THEN 1 ELSE 0)])
             ELSE CountLoop(buf, i + 1, kw, stop_at_first,
                    [st EXCEPT !.match = m1, !.matched_line = ml1])

\* doc_count_keyword once the file is open: buf is everything read returns.
doc_count_buf(buf, kw, stop_at_first) ==
  IF Len(kw) = 0 THEN [rc |-> OS_OK, out |-> 0]
  ELSE LET st == CountLoop(buf, 1, kw, stop_at_first,
                   [match |-> 0, matched_line |-> 0, out |-> 0,
                    early |-> FALSE])
       IN  IF st.early THEN [rc |-> OS_OK, out |-> 1]
           ELSE [rc |-> OS_OK,
                 out |-> st.out + (IF st.match > 0 /\ st.matched_line = 1
                                     THEN 1 ELSE 0)]

doc_count_keyword(path, kw, stop_at_first) ==
  IF ~DocExists(path) THEN [rc |-> OS_ERROR, out |-> 0]
  ELSE doc_count_buf(DocRoot(path), kw, stop_at_first)

doc_contains_keyword(path, kw) ==
  LET r == doc_count_keyword(path, kw, TRUE)
  IN  IF r.rc = OS_OK THEN r.out ELSE r.rc

(***************************************************************************)
(* Parallel scan (src/server/handlers/handle_s.c)                          *)
(***************************************************************************)
MaxScanDocs == 2

BITSET_BYTE(i) == i \div 8
BITSET_MASK(i) == 2 ^ (i % 8)
BitSet(byte, i) == (byte \div BITSET_MASK(i)) % 2 = 1
BitOr(byte, i) == IF BitSet(byte, i) THEN byte ELSE byte + BITSET_MASK(i)

\* scan_parallel without the clamp at ten workers per cpu.
ClampWorkers_nocpus(requested, cpus, total) ==
  LET w1 == IF requested = 0 THEN 1 ELSE requested
  IN  IF w1 > total THEN total ELSE w1

\* The worker count scan_parallel settles on.
ClampWorkers(requested, cpus, total) ==
  LET w1 == IF requested = 0 THEN 1 ELSE requested
      w2 == IF w1 > cpus * 10 THEN cpus * 10 ELSE w1
  IN  IF w2 > total THEN total ELSE w2

Workers == 1..sworkers

NoScanReq == [kw |-> <<>>, requested |-> 0, cpus |-> 1]

ScanIdle ==
  /\ spc = "off" /\ sreq = NoScanReq /\ stotal = 0 /\ sworkers = 0
  /\ snext = 0 /\ next_key = 0 /\ bmp = <<>> /\ wpc = <<>> /\ wk = <<>>
  /\ wbyte = <<>> /\ sfound = {} /\ smaps = {} /\ sgot = <<>> /\ src = OS_OK

\* handle_s up to the call of scan_parallel, and the clamps of scan_parallel.
ScanStart ==
  /\ spc = "entry"
  /\ fpos' = SeekEnd(file)
  /\ stotal' = stg_total(file)
  /\ sfound' = {}
  /\ smaps' = IF stg_total(file) <= 0 THEN {} ELSE {"bmp", "next_key"}
  /\ sgot' = <<>>
  /\ IF stg_total(file) <= 0
       THEN /\ spc' = "returned" /\ src' = OS_ERROR
            /\ UNCHANGED <<sworkers, bmp, wpc, wk, wbyte, next_key, snext>>
       ELSE /\ spc' = "spawn" /\ src' = OS_OK
            /\ sworkers' = ClampWorkers(sreq.requested, sreq.cpus,
                                        stg_total(file))
            /\ bmp' = [i \in 1..((stg_total(file) + 7) \div 8) |-> 0]
            /\ next_key' = 0
            /\ snext' = 1
            /\ wpc' = [w \in 1..ClampWorkers(sreq.requested, sreq.cpus,
                                              stg_total(file)) |-> "unborn"]
            /\ wk' = [w \in 1..ClampWorkers(sreq.requested, sreq.cpus,
                                             stg_total(file)) |-> 0]
            /\ wbyte' = [w \in 1..ClampWorkers(sreq.requested, sreq.cpus,
                                                stg_total(file)) |-> 0]
  /\ UNCHANGED <<sreq, file, addRets, deleted, lastOp,
                 nonScanVars>>

\* fork() of worker snext succeeds.
ScanFork ==
  /\ spc = "spawn" /\ snext <= sworkers
  /\ wpc' = [wpc EXCEPT ![snext] = "fetch"]
  /\ snext' = snext + 1
  /\ spc' = IF snext = sworkers THEN "wait" ELSE "spawn"
  /\ UNCHANGED <<sreq, stotal, sworkers, next_key, bmp, wk, wbyte, sfound, smaps, sgot, src,
                 storeVars,
                 nonScanVars>>

\* fork() fails: scan_parallel returns OS_ERROR at once and handle_s unmaps
\* the bitmap and returns; workers already forked keep running.
ScanForkFail ==
  /\ spc = "spawn" /\ snext <= sworkers
  /\ spc' = "returned" /\ src' = OS_ERROR
  /\ smaps' = smaps \ {"bmp"}
  /\ UNCHANGED <<sgot, sreq, stotal, sworkers, snext, next_key, bmp, wpc, wk,
                 wbyte, sfound, storeVars,
                 nonScanVars>>

\* k = (*next_key)++ without atomicity: the increment is lost when another
\* worker is about to read the counter too.
WFetch_plain(w) ==
  /\ wpc[w] = "fetch"
  /\ next_key' = IF \E v \in Workers \ {w} : wpc[v] = "fetch"
                   THEN next_key ELSE next_key + 1
  /\ wk' = [wk EXCEPT ![w] = next_key]
  /\ sgot' = Append(sgot, [w |-> w, k |-> next_key])
  /\ wpc' = [wpc EXCEPT ![w] = IF next_key >= stotal THEN "exited"
                                                     ELSE "seekend"]
  /\ UNCHANGED <<spc, sreq, stotal, sworkers, snext, bmp, wbyte, sfound,
                 smaps, src, storeVars,
                 nonScanVars>>

\* The loop left with `if (k > total) break;`.
WFetch_gt(w) ==
  /\ wpc[w] = "fetch"
  /\ next_key' = next_key + 1
  /\ wk' = [wk EXCEPT ![w] = next_key]
  /\ sgot' = Append(sgot, [w |-> w, k |-> next_key])
  /\ wpc' = [wpc EXCEPT ![w] = IF next_key > stotal THEN "exited"
                                                     ELSE "seekend"]
  /\ UNCHANGED <<spc, sreq, stotal, sworkers, snext, bmp, wbyte, sfound,
                 smaps, src, storeVars,
                 nonScanVars>>

\* k = __sync_fetch_and_add(next_key, 1); if (k >= total) break;
WFetch(w) ==
  /\ wpc[w] = "fetch"
  /\ next_key' = next_key + 1
  /\ wk' = [wk EXCEPT ![w] = next_key]
  /\ sgot' = Append(sgot, [w |-> w, k |-> next_key])
  /\ wpc' = [wpc EXCEPT ![w] = IF next_key >= stotal THEN "exited"
                                                     ELSE "seekend"]
  /\ UNCHANGED <<spc, sreq, stotal, sworkers, snext, bmp, wbyte, sfound,
                 smaps, src, storeVars,
                 nonScanVars>>

\* stg_get_doc in the worker: lseek(stg_fd, 0, SEEK_END) on the descriptor
\* shared through fork, then the range check.
WSeekEnd(w) ==
  /\ wpc[w] = "seekend"
  /\ fpos' = SeekEnd(file)
  /\ wpc' = [wpc EXCEPT ![w] = IF get_offset(wk[w]) + 1 > SeekEnd(file)
                                 THEN "fetch" ELSE "seekset"]
  /\ UNCHANGED <<spc, sreq, stotal, sworkers, snext, next_key, bmp, wk,
                 wbyte, sfound, smaps, sgot, src, file, addRets, deleted, lastOp,
                 nonScanVars>>

\* lseek(stg_fd, off, SEEK_SET)
WSeekSet(w) ==
  /\ wpc[w] = "seekset"
  /\ fpos' = get_offset(wk[w])
  /\ wpc' = [wpc EXCEPT ![w] = "read"]
  /\ UNCHANGED <<spc, sreq, stotal, sworkers, snext, next_key, bmp, wk,
                 wbyte, sfound, smaps, sgot, src, file, addRets, deleted, lastOp,
                 nonScanVars>>

\* read() at the descriptor's current offset, the key check of stg_get_doc,
\* then doc_build_path and doc_contains_keyword on the worker's own
\* descriptor of the document file.
WRead(w) ==
  LET r == ReadRec(file, fpos)
      got == r.n = 1 /\ r.rec.key = wk[w]
      found == got /\ doc_contains_keyword(r.rec.path, sreq.kw) = 1
  IN  /\ wpc[w] = "read"
      /\ fpos' = r.pos
      /\ wpc' = [wpc EXCEPT ![w] = IF found THEN "load" ELSE "fetch"]
      /\ sfound' = IF found THEN sfound \cup {wk[w]} ELSE sfound
      /\ UNCHANGED <<spc, sreq, stotal, sworkers, snext, next_key, bmp, wk,
                     wbyte, src, smaps, sgot, file, addRets, deleted, lastOp,
                 nonScanVars>>

\* bmp[BITSET_BYTE(k)] |= BITSET_MASK(k): the load of the byte ...
WLoad(w) ==
  /\ wpc[w] = "load"
  /\ wbyte' = [wbyte EXCEPT ![w] = bmp[BITSET_BYTE(wk[w]) + 1]]
  /\ wpc' = [wpc EXCEPT ![w] = "store"]
  /\ UNCHANGED <<spc, sreq, stotal, sworkers, snext, next_key, bmp, wk, src,
                 sfound, smaps, sgot, storeVars,
                 nonScanVars>>

\* ... and the store of the byte with the bit set.
WStore(w) ==
  /\ wpc[w] = "store"
  /\ bmp' = [bmp EXCEPT ![BITSET_BYTE(wk[w]) + 1] = BitOr(wbyte[w], wk[w])]
  /\ wpc' = [wpc EXCEPT ![w] = "fetch"]
  /\ UNCHANGED <<spc, sreq, stotal, sworkers, snext, next_key, wk, wbyte, sfound, smaps, sgot,
                 src, storeVars,
                 nonScanVars>>

\* waitpid with WNOHANG: the loop goes on whether or not the worker has
\* exited.
ScanWait_nohang ==
  /\ spc = "wait"
  /\ LET w == snext - sworkers IN
       /\ w \in Workers
       /\ wpc' = [wpc EXCEPT ![w] = IF @ = "exited" THEN "reaped" ELSE @]
       /\ snext' = snext + 1
       /\ smaps' = IF w = sworkers THEN {} ELSE smaps
       /\ spc' = IF w = sworkers THEN "returned" ELSE "wait"
  /\ UNCHANGED <<sreq, stotal, sworkers, next_key, bmp, wk, wbyte, sfound, src,
                 sgot, storeVars,
                 nonScanVars>>

\* waitpid(pids[w], NULL, 0), in the order the workers were forked; after the
\* last one scan_parallel unmaps the counter and returns OS_OK.
ScanWait ==
  /\ spc = "wait"
  /\ LET w == snext - sworkers IN
       /\ w \in Workers
       /\ wpc[w] = "exited"
       /\ wpc' = [wpc EXCEPT ![w] = "reaped"]
       /\ snext' = snext + 1
       /\ smaps' = IF w = sworkers THEN {} ELSE smaps
       /\ spc' = IF w = sworkers THEN "returned" ELSE "wait"
  /\ UNCHANGED <<sreq, stotal, sworkers, next_key, bmp, wk, wbyte, sfound, src,
                 sgot, storeVars,
                 nonScanVars>>

WorkerStep ==
  \E w \in Workers :
    WFetch(w) \/ WSeekEnd(w) \/ WSeekSet(w) \/ WRead(w) \/ WLoad(w)
      \/ WStore(w)

\* The keys handle_s lists: the bits set in the bitmap, ascending.
BitmapKeys == {k \in 0..(stotal - 1) : BitSet(bmp[BITSET_BYTE(k) + 1], k)}

(***************************************************************************)
(* LRU response cache (src/server/cache/cache_lru.c)                       *)
(***************************************************************************)
MAX_KEY_LEN == 255
NULL == 0

\* A response_t nobody has filled in (read as zeroes).
NoRsp == [kind |-> "rsp", hdr |-> [len |-> 0, opcode |-> 0, status |-> 0],
          payload |-> <<>>]

LE32(n) == <<n % 256, (n \div 256) % 256, (n \div 65536) % 256,
             (n \div 16777216) % 256>>
RdLE32(mem, off) ==
  ByteAt(mem, off) + 256 * ByteAt(mem, off + 1)
    + 65536 * ByteAt(mem, off + 2) + 16777216 * ByteAt(mem, off + 3)

\* The statics before cache_init and after cache_cleanup.
NoCache == [init |-> FALSE, ht |-> <<>>, nodes |-> <<>>, head |-> NULL, tail |-> NULL,
            cap |-> 0, count |-> 0]

\* malloc: an address that is not in use.
NewNode(c) == CHOOSE n \in 1..(Cardinality(DOMAIN c.nodes) + 1) :
                n \notin DOMAIN c.nodes

\* The new head node of cache_put / load_from_disk, linked in and indexed.
PushFront(c, key, rsp) ==
  LET e == NewNode(c)
      n1 == [n \in DOMAIN c.nodes \cup {e} |->
               IF n = e THEN [key |-> key, rsp |-> rsp, prev |-> NULL,
                              next |-> c.head]
               ELSE IF n = c.head THEN [c.nodes[n] EXCEPT !.prev = e]
               ELSE c.nodes[n]]
  IN  [c EXCEPT !.nodes = n1,
                !.head = e,
                !.tail = IF c.tail = NULL THEN e ELSE c.tail,
                !.ht = [k \in DOMAIN c.ht \cup {key} |->
                          IF k = key THEN e ELSE c.ht[k]],
                !.count = c.count + 1]

\* move_front that unlinks the entry but forgets to repair tail.
move_front_notail(c, e) ==
  IF e = NULL \/ e = c.head THEN c
  ELSE LET p == c.nodes[e].prev
           x == c.nodes[e].next
           n1 == IF p # NULL THEN [c.nodes EXCEPT ![p].next = x] ELSE c.nodes
           n2 == IF x # NULL THEN [n1 EXCEPT ![x].prev = p] ELSE n1
           n3 == [n2 EXCEPT ![e].prev = NULL, ![e].next = c.head]
           n4 == IF c.head # NULL THEN [n3 EXCEPT ![c.head].prev = e] ELSE n3
       IN  [c EXCEPT !.nodes = n4, !.head = e]

move_front(c, e) ==
  IF e = NULL \/ e = c.head THEN c
  ELSE LET p == c.nodes[e].prev
           x == c.nodes[e].next
           n1 == IF p # NULL THEN [c.nodes EXCEPT ![p].next = x] ELSE c.nodes
           n2 == IF x # NULL THEN [n1 EXCEPT ![x].prev = p] ELSE n1
           t1 == IF e = c.tail THEN p ELSE c.tail
           n3 == [n2 EXCEPT ![e].prev = NULL, ![e].next = c.head]
           n4 == IF c.head # NULL THEN [n3 EXCEPT ![c.head].prev = e] ELSE n3
       IN  [c EXCEPT !.nodes = n4, !.head = e,
                     !.tail = IF t1 = NULL THEN e ELSE t1]

\* evict that removes the head instead of the tail.
RECURSIVE evict_head(_)
evict_head(c) ==
  IF c.cap # 0 /\ c.count > c.cap /\ c.head # NULL
    THEN LET old == c.head
             h1 == c.nodes[old].next
             n1 == IF h1 # NULL THEN [c.nodes EXCEPT ![h1].prev = NULL]
                                ELSE c.nodes
         IN  evict_head([c EXCEPT
                      !.head = h1,
                      !.tail = IF h1 = NULL THEN NULL ELSE c.tail,
                      !.ht = [k \in DOMAIN c.ht \ {c.nodes[old].key} |->
                                c.ht[k]],
                      !.nodes = [n \in DOMAIN n1 \ {old} |-> n1[n]],
                      !.count = c.count - 1])
    ELSE c

RECURSIVE evict(_)
evict(c) ==
  IF c.cap # 0 /\ c.count > c.cap /\ c.tail # NULL
    THEN LET old == c.tail
             t1 == c.nodes[old].prev
             n1 == IF t1 # NULL THEN [c.nodes EXCEPT ![t1].next = NULL]
                                ELSE c.nodes
         IN  evict([c EXCEPT
                      !.tail = t1,
                      !.head = IF t1 = NULL THEN NULL ELSE c.head,
                      !.ht = [k \in DOMAIN c.ht \ {c.nodes[old].key} |->
                                c.ht[k]],
                      !.nodes = [n \in DOMAIN n1 \ {old} |-> n1[n]],
                      !.count = c.count - 1])
    ELSE c

\* txp_read of n bytes at offset pos of a regular file: fails at end of file.
FileRead(bs, pos, n) == IF pos + n <= Len(bs) THEN OS_OK ELSE OS_ERROR

RECURSIVE LoadLoop(_, _, _, _, _)
LoadLoop(c, bs, pos, i, n) ==
  IF ~(i < n /\ c.count < c.cap) THEN c
  ELSE IF FileRead(bs, pos, 2) = OS_ERROR THEN c
  ELSE LET klen == RdLE16(bs, pos) IN
    IF klen = 0 \/ klen > MAX_KEY_LEN THEN c
    ELSE IF FileRead(bs, pos + 2, klen) = OS_ERROR THEN c
    ELSE IF FileRead(bs, pos + 2 + klen, 2) = OS_ERROR THEN c
    ELSE LET key == Bytes(bs, pos + 2, klen)
             rlen == RdLE16(bs, pos + 2 + klen) IN
      IF rlen > RSP_MAX THEN c
      ELSE IF FileRead(bs, pos + 4 + klen, rlen) = OS_ERROR THEN c
      ELSE LoadLoop(PushFront(c, key,
                              RspFromBytes(Bytes(bs, pos + 4 + klen, rlen))),
                    bs, pos + 4 + klen + rlen, i + 1, n)

load_from_disk(c, d) ==
  IF ~d.exists THEN c
  ELSE IF FileRead(d.bytes, 0, 4) = OS_ERROR THEN c
  ELSE LoadLoop(c, d.bytes, 4, 0, RdLE32(d.bytes, 0))

\* The entries of the list from node e on, as dump_to_disk writes them.
RECURSIVE DumpFrom(_, _)
DumpFrom(c, e) ==
  IF e = NULL THEN <<>>
  ELSE LET nd == c.nodes[e]
           klen == Len(nd.key) % 65536
           rlen == nd.rsp.hdr.len
       IN  LE16(klen) \o Bytes(nd.key, 0, klen) \o LE16(rlen)
             \o RspBytes(nd.rsp, rlen) \o DumpFrom(c, nd.next)

\* dump_to_disk writing the entry count as a 16-bit field.
dump_to_disk_count16(c) == LE16(c.count) \o DumpFrom(c, c.head)

dump_to_disk(c) == LE32(c.count) \o DumpFrom(c, c.head)

cache_init(c, d, max_entries) ==
  IF c.init THEN [rc |-> OS_ERROR, cache |-> c]
  ELSE LET c0 == [init |-> TRUE, ht |-> <<>>, nodes |-> <<>>, head |-> NULL, tail |-> NULL,
                  cap |-> max_entries, count |-> 0]
       IN  [rc |-> OS_OK,
            cache |-> IF max_entries # 0 THEN load_from_disk(c0, d) ELSE c0]

cache_get(c, kw) ==
  IF kw \notin DOMAIN c.ht
    THEN [rc |-> OS_ERROR, cache |-> c, out |-> NoRsp]
    ELSE LET e == c.ht[kw]
         IN  [rc |-> OS_OK, cache |-> move_front(c, e),
              out |-> c.nodes[e].rsp]

\* cache_put without the test of cap.
cache_put_nocap(c, kw, rsp) ==
  IF kw \in DOMAIN c.ht
    THEN LET e == c.ht[kw]
         IN  move_front([c EXCEPT !.nodes[e].rsp = rsp], e)
    ELSE evict(PushFront(c, kw, rsp))

cache_put(c, kw, rsp) ==
  IF c.cap = 0 THEN c
  ELSE IF kw \in DOMAIN c.ht
    THEN LET e == c.ht[kw]
         IN  move_front([c EXCEPT !.nodes[e].rsp = rsp], e)
    ELSE evict(PushFront(c, kw, rsp))

\* Result: the statics and the persistence file after cache_cleanup.
cache_cleanup(c, d) ==
  [cache |-> NoCache,
   disk |-> IF c.cap # 0 THEN [exists |-> TRUE, bytes |-> dump_to_disk(c)]
                         ELSE d]

\* The keys of the list, following next from head.
RECURSIVE ListFrom(_, _, _)
ListFrom(c, e, fuel) ==
  IF e = NULL \/ fuel = 0 \/ e \notin DOMAIN c.nodes THEN <<>>
  ELSE <<c.nodes[e].key>> \o ListFrom(c, c.nodes[e].next, fuel - 1)
ListKeys(c) == ListFrom(c, c.head, Cardinality(DOMAIN c.nodes) + 1)

(***************************************************************************)
(* Cache scenarios: Init, Get, Put and Cleanup in any order; the           *)
(* persistence file starts absent and is only written by Cleanup           *)
(***************************************************************************)
MaxCap == 2

CacheKeys == {<<120>>, <<120, 121>>, [i \in 1..MAX_KEY_LEN |-> 122]}
CacheFrames == {proto_build_simple_rsp(OP_S, <<91, 93>>),
                proto_build_simple_rsp(OP_S, <<91, 48, 93>>)}

NoCacheOp == [op |-> "none", key |-> <<>>, rc |-> OS_OK, out |-> NoRsp,
              evicted |-> {}, before |-> <<>>, recBefore |-> <<>>]
NoTrail == [stage |-> 0, key |-> <<>>, rsp |-> NoRsp]

CacheIdle ==
  /\ cache = NoCache /\ disk = [exists |-> FALSE, bytes |-> <<>>]
  /\ recency = <<>>
  /\ lastCache = NoCacheOp /\ trail = NoTrail

\* seq with key k moved (or put) to the front.
Touch(seq, k) ==
  <<k>> \o SelectSeq(seq, LAMBDA x : x # k)
Restrict(seq, S) == SelectSeq(seq, LAMBDA x : x \in S)

CacheInit ==
  /\ ~cache.init
  /\ \E n \in 0..MaxCap :
       /\ cache' = cache_init(cache, disk, n).cache
       /\ trail' = IF trail.stage = 2 /\ n > 0
                     THEN [trail EXCEPT !.stage = 3] ELSE NoTrail
  /\ recency' = <<>>
  /\ lastCache' = [NoCacheOp EXCEPT !.op = "init"]
  /\ UNCHANGED disk
  /\ UNCHANGED nonCacheVars

CacheGet ==
  /\ cache.init
  /\ \E k \in CacheKeys :
       LET r == cache_get(cache, k)
       IN  /\ cache' = r.cache
           /\ recency' = IF r.rc = OS_OK THEN Touch(recency, k) ELSE recency
           /\ lastCache' = [op |-> "get", key |-> k, rc |-> r.rc,
                            out |-> r.out, evicted |-> {},
                            before |-> ListKeys(cache),
                            recBefore |-> recency]
           /\ trail' = IF trail.stage = 3 /\ trail.key = k
                         THEN [trail EXCEPT !.stage = 4] ELSE NoTrail
  /\ UNCHANGED disk
  /\ UNCHANGED nonCacheVars

CachePut ==
  /\ cache.init
  /\ \E k \in CacheKeys, v \in CacheFrames :
       LET c1 == cache_put(cache, k, v)
           gone == DOMAIN cache.ht \ DOMAIN c1.ht
       IN  /\ cache' = c1
           /\ recency' = IF cache.cap = 0 THEN recency
                         ELSE Restrict(Touch(recency, k), DOMAIN c1.ht)
           /\ lastCache' = [op |-> "put", key |-> k, rc |-> OS_OK,
                            out |-> NoRsp, evicted |-> gone,
                            before |-> ListKeys(cache),
                            recBefore |-> recency]
           /\ trail' = IF cache.cap > 0
                         THEN [stage |-> 1, key |-> k, rsp |-> v]
                         ELSE NoTrail
  /\ UNCHANGED disk
  /\ UNCHANGED nonCacheVars

CacheCleanup ==
  /\ cache.init
  /\ cache' = cache_cleanup(cache, disk).cache
  /\ disk' = cache_cleanup(cache, disk).disk
  /\ recency' = <<>>
  /\ lastCache' = [NoCacheOp EXCEPT !.op = "cleanup"]
  /\ trail' = IF trail.stage = 1 THEN [trail EXCEPT !.stage = 2] ELSE NoTrail
  /\ UNCHANGED nonCacheVars

(***************************************************************************)
(* Command table and argument decoding (src/common/commands.c,             *)
(* src/common/arg_codec.c, src/server/dispatcher.c)                        *)
(***************************************************************************)
cmd_table ==
  <<[opcode |-> OP_A, argc_min |-> 4, argc_max |-> 4, blocking |-> TRUE,
     types |-> <<ARG_STR, ARG_STR, ARG_U32, ARG_STR>>],
    [opcode |-> OP_C, argc_min |-> 1, argc_max |-> 1, blocking |-> FALSE,
     types |-> <<ARG_U32>>],
    [opcode |-> OP_D, argc_min |-> 1, argc_max |-> 1, blocking |-> TRUE,
     types |-> <<ARG_U32>>],
    [opcode |-> OP_L, argc_min |-> 2, argc_max |-> 2, blocking |-> FALSE,
     types |-> <<ARG_U32, ARG_STR>>],
    [opcode |-> OP_S, argc_min |-> 1, argc_max |-> 2, blocking |-> FALSE,
     types |-> <<ARG_STR, ARG_U32>>],
    [opcode |-> OP_F, argc_min |-> 0, argc_max |-> 0, blocking |-> TRUE,
     types |-> <<>>]>>

\* found = FALSE stands for the NULL row.
cmd_by_opcode(op) ==
  IF op >= OP_COUNT THEN [found |-> FALSE, row |-> cmd_table[1]]
  ELSE [found |-> TRUE, row |-> cmd_table[op + 1]]

\* An arg_val_t of the zeroed args array.
\* The member u32 holds the four bytes of the uint32_t object.
ZeroArg == [type |-> 0, u32 |-> <<0, 0, 0, 0>>, str |-> <<>>]

\* The number held by the u32 member of an arg_val_t.
U32(a) == RdLE32(a.u32, 0)

\* dec_u32 copying sizeof(uint16_t) bytes only.
dec_u32_short(wire) ==
  IF Len(wire) # 4 THEN [rc |-> OS_ERROR, arg |-> ZeroArg]
  ELSE [rc |-> OS_OK,
        arg |-> [type |-> ARG_U32, u32 |-> Bytes(wire, 0, 2) \o <<0, 0>>,
                 str |-> <<>>]]

dec_u32(wire) ==
  IF Len(wire) # 4 THEN [rc |-> OS_ERROR, arg |-> ZeroArg]
  ELSE [rc |-> OS_OK,
        arg |-> [type |-> ARG_U32, u32 |-> Bytes(wire, 0, 4), str |-> <<>>]]

dec_str(wire) ==
  [rc |-> OS_OK, arg |-> [type |-> ARG_STR, u32 |-> ZeroArg.u32, str |-> wire]]

arg_decoders(t, wire) == IF t = ARG_U32 THEN dec_u32(wire) ELSE dec_str(wire)

\* The first n bytes of a request_t in memory.
ReqBytes(req, n) ==
  Bytes(LE16(req.hdr.len) \o <<req.hdr.opcode>> \o LE32(req.hdr.pid)
          \o req.payload, 0, n)

\* The request_t whose first Len(bs) bytes are bs.
ReqFromBytes(bs) ==
  [kind |-> "req",
   hdr |-> [len |-> RdLE16(bs, 0), opcode |-> ByteAt(bs, 2),
            pid |-> RdLE32(bs, 3)],
   payload |-> Bytes(bs, REQ_HDR_SZ, Max(Len(bs) - REQ_HDR_SZ, 0))]

\* The loop of dismantle_request from argument i (0-based) on.
RECURSIVE DismantleLoop(_, _, _, _, _)
DismantleLoop(req, row, cur, i, args) ==
  IF i >= row.argc_max THEN [rc |-> OS_OK, args |-> args]
  ELSE LET n == proto_cursor_next(cur, req.payload) IN
    IF n.st = OS_OK
      THEN IF i < row.argc_min THEN [rc |-> OS_ERROR, args |-> args]
           ELSE [rc |-> OS_OK, args |-> args]
    ELSE IF n.st # OS_AGAIN THEN [rc |-> OS_ERROR, args |-> args]
    ELSE IF n.type # row.types[i + 1] THEN [rc |-> OS_ERROR, args |-> args]
    ELSE LET d == arg_decoders(n.type, Bytes(req.payload, n.voff, n.vlen)) IN
      IF d.rc = OS_ERROR THEN [rc |-> OS_ERROR, args |-> args]
      ELSE DismantleLoop(req, row, n.cursor, i + 1,
                         [args EXCEPT ![i + 1] = d.arg])

dismantle_request(req, row) ==
  DismantleLoop(req, row, proto_cursor_init(req.hdr.len - REQ_HDR_SZ), 0,
                [i \in 1..row.argc_max |-> ZeroArg])

proto_arg_first_str(req, cap) ==
  LET n == proto_cursor_next(proto_cursor_init(req.hdr.len - REQ_HDR_SZ),
                             req.payload)
  IN  IF n.st # OS_AGAIN THEN [rc |-> OS_ERROR, str |-> <<>>]
      ELSE IF n.type # ARG_STR \/ n.vlen = 0 \/ n.vlen >= cap
        THEN [rc |-> OS_ERROR, str |-> <<>>]
        ELSE [rc |-> OS_OK, str |-> Bytes(req.payload, n.voff, n.vlen)]

\* bs: the bytes the descriptor yields before it blocks or reports EOF.
proto_recv_req(bs) ==
  IF Len(bs) < REQ_HDR_SZ THEN [rc |-> OS_ERROR, req |-> ReqFromBytes(<<>>)]
  ELSE LET len == RdLE16(bs, 0) IN
    IF len < REQ_HDR_SZ \/ len > REQ_MAX \/ Len(bs) < len
      THEN [rc |-> OS_ERROR, req |-> ReqFromBytes(<<>>)]
      ELSE [rc |-> OS_OK, req |-> ReqFromBytes(Bytes(bs, 0, len))]

\* The bytes proto_send_rsp writes.
proto_send_rsp(rsp) == RspBytes(rsp, rsp.hdr.len)

proto_recv_rsp(bs) ==
  IF Len(bs) < RSP_HDR_SZ THEN [rc |-> OS_ERROR, rsp |-> NoRsp]
  ELSE LET len == RdLE16(bs, 0) IN
    IF len < RSP_HDR_SZ \/ len > RSP_MAX \/ Len(bs) < len
      THEN [rc |-> OS_ERROR, rsp |-> NoRsp]
      ELSE [rc |-> OS_OK, rsp |-> RspFromBytes(Bytes(bs, 0, len))]

(***************************************************************************)
(* Request handlers (src/server/handlers/)                                 *)
(***************************************************************************)
MAX_TITLE_LEN == 200
MAX_AUTHORS_LEN == 200
MAX_PATH_LEN == 64
TXP_MAX == RSP_MAX

\* printf's %d and %u.
RECURSIVE DecNat(_)
DecNat(n) ==
  IF n < 10 THEN <<48 + n>> ELSE DecNat(n \div 10) \o <<48 + (n % 10)>>
Dec(n) == IF n < 0 THEN <<45>> \o DecNat(-n) ELSE DecNat(n)

\* (int) of a uint32_t.
ToInt(u) == IF u > 2147483647 THEN u - 2147483647 - 2147483647 - 2 ELSE u

\* snprintf into a buffer of cap bytes.
Snprintf(cap, text) == Bytes(text, 0, Min(Len(text), cap - 1))

MsgErr == <<69, 82, 82>>
MsgDocNotFound == <<68, 111, 99, 117, 109, 101, 110, 116, 32, 110, 111, 116,
                    32, 102, 111, 117, 110, 100>>
MsgPathNotFound == <<80, 97, 116, 104, 32, 110, 111, 116, 32, 102, 111, 117,
                     110, 100>>
MsgShutdown == <<83, 101, 114, 118, 101, 114, 32, 105, 115, 32, 115, 104,
                 117, 116, 116, 105, 110, 103, 32, 100, 111, 119, 110>>
MsgIndexed(key) ==
  Snprintf(64, <<68, 111, 99, 117, 109, 101, 110, 116, 32>> \o Dec(key)
                 \o <<32, 105, 110, 100, 101, 120, 101, 100>>)
MsgDeleted(key) ==
  Snprintf(64, <<73, 110, 100, 101, 120, 32, 101, 110, 116, 114, 121, 32>>
                 \o Dec(key) \o <<32, 100, 101, 108, 101, 116, 101, 100>>)
MsgEntryNotFound(key) ==
  Snprintf(64, <<73, 110, 100, 101, 120, 32, 101, 110, 116, 114, 121, 32>>
                 \o Dec(key) \o <<32, 110, 111, 116, 32, 102, 111, 117, 110,
                                  100>>)

\* Every handler returns rc, the response it built and the store after it.
\* handle_a from the key on: r is the result of stg_add_doc.
handle_a_key(r) ==
  IF r.rc = OS_ERROR
    THEN [rc |-> OS_ERROR, rsp |-> NoRsp, file |-> r.file, fpos |-> r.fpos]
    ELSE [rc |-> OS_OK,
          rsp |-> proto_build_simple_rsp(OP_A, MsgIndexed(r.rc)),
          file |-> r.file, fpos |-> r.fpos]

handle_a(argv, f, pos) ==
  handle_a_key(stg_add_doc(f,
    [key |-> 0,
     title |-> Bytes(argv[1].str, 0,
                     Min(Len(argv[1].str), MAX_TITLE_LEN - 1)),
     authors |-> Bytes(argv[2].str, 0,
                       Min(Len(argv[2].str), MAX_AUTHORS_LEN - 1)),
     path |-> Bytes(argv[4].str, 0,
                    Min(Len(argv[4].str), MAX_PATH_LEN - 1)),
     year |-> U32(argv[3])]))

\* handle_c passing the store's error on.
handle_c_doc_err(r, f) ==
  [rc |-> IF r.rc = OS_ERROR THEN OS_ERROR ELSE OS_OK,
   rsp |-> proto_build_simple_rsp(OP_C, MsgDocNotFound),
   file |-> f, fpos |-> r.fpos]

\* handle_c from the record on: r is the result of stg_get_doc.
handle_c_doc(r, f) ==
  IF r.rc = OS_ERROR
    THEN [rc |-> OS_OK,
          rsp |-> proto_build_simple_rsp(OP_C, MsgDocNotFound),
          file |-> f, fpos |-> r.fpos]
  ELSE LET i == proto_rsp_init(OP_C, 0)
           a1 == proto_add_tlv(i.bld, i.frame.payload, ARG_STR,
                   Snprintf(256, <<84, 105, 116, 108, 101, 58, 32>>
                                   \o r.out.title))
           a2 == proto_add_tlv(a1.bld, a1.payload, ARG_STR,
                   Snprintf(256, <<65, 117, 116, 104, 111, 114, 115, 58,
                                   32>> \o r.out.authors))
           a3 == proto_add_tlv(a2.bld, a2.payload, ARG_STR,
                   Snprintf(256, <<89, 101, 97, 114, 58, 32>>
                                   \o Dec(r.out.year)))
           a4 == proto_add_tlv(a3.bld, a3.payload, ARG_STR,
                   Snprintf(256, <<80, 97, 116, 104, 58, 32>>
                                   \o r.out.path))
       IN  [rc |-> OS_OK,
            rsp |-> proto_rsp_finish([i.frame EXCEPT !.payload = a4.payload],
                                     a4.bld).frame,
            file |-> f, fpos |-> r.fpos]

handle_c(argv, f, pos) == handle_c_doc(stg_get_doc(f, pos, ToInt(U32(argv[1]))), f)

\* handle_d from the deletion on: r is the result of stg_del_doc.
handle_d_msg(r, key) ==
  [rc |-> OS_OK,
   rsp |-> proto_build_simple_rsp(OP_D,
             IF r.rc = OS_OK THEN MsgDeleted(key)
                             ELSE MsgEntryNotFound(key)),
   file |-> r.file, fpos |-> r.fpos]

handle_d(argv, f, pos) ==
  handle_d_msg(stg_del_doc(f, pos, ToInt(U32(argv[1]))), ToInt(U32(argv[1])))

handle_f(argv, f, pos) ==
  [rc |-> OS_SHUTDOWN, rsp |-> proto_build_simple_rsp(OP_F, MsgShutdown),
   file |-> f, fpos |-> pos]

\* Result: rc, the path under the document root and the store offset.
doc_build_path(f, pos, key) ==
  LET r == stg_get_doc(f, pos, key)
  IN  IF r.rc = OS_ERROR THEN [rc |-> OS_ERROR, path |-> <<>>, fpos |-> r.fpos]
      ELSE IF r.out.key = -1
        THEN [rc |-> OS_ERROR, path |-> <<>>, fpos |-> r.fpos]
        ELSE [rc |-> OS_OK, path |-> r.out.path, fpos |-> r.fpos]

doc_key_contains_keyword(f, pos, key, kw) ==
  LET p == doc_build_path(f, pos, key)
  IN  IF p.rc = OS_ERROR THEN OS_ERROR ELSE doc_contains_keyword(p.path, kw)

\* handle_l from the count on: c is the result of doc_count_keyword.
handle_l_count(c, f, pos) ==
  IF c.rc = OS_ERROR
    THEN [rc |-> OS_ERROR, rsp |-> NoRsp, file |-> f, fpos |-> pos]
  ELSE LET i == proto_rsp_init(OP_L, 0)
           a == proto_add_tlv(i.bld, i.frame.payload, ARG_U32, LE32(c.out))
       IN  [rc |-> OS_OK,
            rsp |-> proto_rsp_finish([i.frame EXCEPT !.payload = a.payload],
                                     a.bld).frame,
            file |-> f, fpos |-> pos]

\* handle_l from the path on: p is the result of doc_build_path.
handle_l_path(p, kw, f) ==
  IF p.rc = OS_ERROR
    THEN [rc |-> OS_OK,
          rsp |-> proto_build_simple_rsp(OP_L, MsgPathNotFound),
          file |-> f, fpos |-> p.fpos]
    ELSE handle_l_count(doc_count_keyword(p.path, kw, FALSE), f, p.fpos)

\* handle_l from the record on: r is the result of stg_get_doc.
handle_l_doc(r, key, kw, f) ==
  IF r.rc = OS_ERROR
    THEN [rc |-> OS_OK,
          rsp |-> proto_build_simple_rsp(OP_L, MsgDocNotFound),
          file |-> f, fpos |-> r.fpos]
    ELSE handle_l_path(doc_build_path(f, r.fpos, key), kw, f)

handle_l(argv, f, pos) ==
  handle_l_doc(stg_get_doc(f, pos, ToInt(U32(argv[1]))),
               ToInt(U32(argv[1])),
               Bytes(argv[2].str, 0, Min(Len(argv[2].str), 255)), f)

\* The keys a scan by one worker marks in the bitmap.
ScanHits(f, kw) ==
  {k \in 0..(stg_total(f) - 1) : doc_key_contains_keyword(f, 0, k, kw) = 1}

\* "[k1, k2, ...]" for the keys of the bitmap, from key k on.
RECURSIVE ListText(_, _, _, _)
ListText(keys, k, total, first) ==
  IF k >= total THEN <<>>
  ELSE IF k \in keys
    THEN (IF first THEN <<>> ELSE <<44, 32>>) \o Dec(k)
           \o ListText(keys, k + 1, total, FALSE)
    ELSE ListText(keys, k + 1, total, first)

\* handle_s from the bitmap on: keys are the keys whose bit is set.
handle_s_list(keys, total, f, pos) ==
  [rc |-> OS_OK,
   rsp |-> proto_build_simple_rsp(OP_S,
             <<91>> \o ListText(keys, 0, total, TRUE) \o <<93>>),
   file |-> f, fpos |-> pos]

\* handle_s with its scan summarised: env.scan_fork says whether every fork
\* of scan_parallel succeeds, env.lost are the hits that the workers' races
\* on the store offset and on the bitmap bytes lose (none with one worker),
\* env.off is where those races leave the store offset.
handle_s_scan(kw, w, total, f, env) ==
  IF total <= 0
    THEN [rc |-> OS_ERROR, rsp |-> NoRsp, file |-> f, fpos |-> SeekEnd(f)]
  ELSE IF ~env.scan_fork
    THEN [rc |-> OS_ERROR, rsp |-> NoRsp, file |-> f, fpos |-> SeekEnd(f)]
  ELSE IF w = 1
    THEN handle_s_list(ScanHits(f, kw), total, f, total)
    ELSE handle_s_list(ScanHits(f, kw) \ env.lost, total, f, env.off)

handle_s(argv, f, pos, env) ==
  handle_s_scan(Bytes(argv[1].str, 0, Min(Len(argv[1].str), 255)),
                ClampWorkers(IF argv[2].type = ARG_U32 /\ U32(argv[2]) # 0
                               THEN U32(argv[2]) ELSE 1,
                             env.cpus, stg_total(f)),
                stg_total(f), f, env)

handlers(op, argv, f, pos, env) ==
  IF op = OP_A THEN handle_a(argv, f, pos)
  ELSE IF op = OP_C THEN handle_c(argv, f, pos)
  ELSE IF op = OP_D THEN handle_d(argv, f, pos)
  ELSE IF op = OP_L THEN handle_l(argv, f, pos)
  ELSE IF op = OP_S THEN handle_s(argv, f, pos, env)
  ELSE handle_f(argv, f, pos)

\* dispatch_request from the decoded arguments on.
dispatch_request_args(d, row, f, pos, env) ==
  IF d.rc = OS_ERROR
    THEN [rc |-> OS_ERROR, rsp |-> NoRsp, file |-> f, fpos |-> pos]
    ELSE handlers(row.opcode, d.args, f, pos, env)

dispatch_request(req, row, f, pos, env) ==
  dispatch_request_args(dismantle_request(req, row), row, f, pos, env)

(***************************************************************************)
(* Dispatcher (src/server/dserver.c) and reply (src/common/transport.c)    *)
(***************************************************************************)
\* The processes that have created their reply FIFO.
Clients == {5}

\* Result: rc and the bytes that reached the client's FIFO.
txp_reply(pid, rsp, len) ==
  IF len = 0 \/ len > TXP_MAX \/ pid <= 0
    THEN [rc |-> OS_ERROR, bytes |-> <<>>]
  ELSE IF pid \notin Clients THEN [rc |-> OS_ERROR, bytes |-> <<>>]
  ELSE [rc |-> OS_OK, bytes |-> RspBytes(rsp, len)]

\* The child of spawn_nonblock_child answering with an ERR frame that
\* carries no opcode.
child_reply_noop(r, cmd) ==
  [pid |-> 1,
   pipe |-> proto_send_rsp(IF r.rc = OS_ERROR
                             THEN proto_build_simple_rsp(0, MsgErr)
                             ELSE r.rsp),
   fpos |-> r.fpos, rc |-> r.rc]

\* The child of spawn_nonblock_child exiting without a frame when the
\* handler failed.
child_reply_silent(r, cmd) ==
  [pid |-> 1,
   pipe |-> IF r.rc = OS_ERROR THEN <<>> ELSE proto_send_rsp(r.rsp),
   fpos |-> r.fpos, rc |-> r.rc]

\* The child of spawn_nonblock_child once dispatch_request has returned r;
\* pipe: the bytes it writes to the pipe before it exits.
child_reply(r, cmd) ==
  [pid |-> 1,
   pipe |-> proto_send_rsp(IF r.rc = OS_ERROR
                             THEN proto_build_simple_rsp(cmd.opcode, MsgErr)
                             ELSE r.rsp),
   fpos |-> r.fpos, rc |-> r.rc]

\* env.fork says whether pipe() and fork() succeed.
spawn_nonblock_child(req, cmd, f, pos, env) ==
  IF ~env.fork THEN [pid |-> -1, pipe |-> <<>>, fpos |-> pos, rc |-> OS_ERROR]
  ELSE child_reply(dispatch_request(req, cmd, f, pos, env), cmd)

\* A pass of the serve loop works on a record s: the cache, the store, and
\* what the pass has done so far.  t: the result of txp_reply.
Deliver(s, pid, t) ==
  IF t.rc = OS_OK
    THEN [s EXCEPT !.sent = Append(s.sent, [pid |-> pid, bytes |-> t.bytes])]
    ELSE s

\* serve_requests, lines 86-89: g is the result of cache_get.
serve_requests_hit(s, req, g) ==
  IF g.rc # 0 THEN s
  ELSE [Deliver(s, req.hdr.pid, txp_reply(req.hdr.pid, g.out, g.out.hdr.len))
          EXCEPT !.cache = g.cache, !.path = "hit"]

\* serve_requests, lines 83-90: kw is the result of proto_arg_first_str.
serve_requests_kw(s, req, kw) ==
  IF kw.rc # OS_OK THEN s
  ELSE serve_requests_hit(s, req, cache_get(s.cache, kw.str))

\* serve_requests without the cache check.
serve_requests_quick_nocheck(s, req) == s

\* serve_requests, lines 80-91: the cache check.
serve_requests_quick(s, req) ==
  IF req.hdr.opcode # OP_S THEN s
  ELSE serve_requests_kw(s, req, proto_arg_first_str(req, 256))

\* serve_requests, lines 103-109: rsp came from the worker's pipe.
serve_requests_reply(s, req, rsp, kw) ==
  Deliver(IF req.hdr.opcode = OP_S /\ kw.rc = OS_OK
            THEN [s EXCEPT !.cache = cache_put(s.cache, kw.str, rsp),
                           !.puts = Append(s.puts, [key |-> kw.str,
                                                    rsp |-> rsp])]
            ELSE s,
          req.hdr.pid, txp_reply(req.hdr.pid, rsp, rsp.hdr.len))

\* serve_requests, lines 100-112: rr is the result of proto_recv_rsp.
serve_requests_recv_rsp(s, req, rr) ==
  IF rr.rc # OS_OK THEN s
  ELSE serve_requests_reply(s, req, rr.rsp, proto_arg_first_str(req, 256))

\* serve_requests, lines 97-112: ch is the result of spawn_nonblock_child.
serve_requests_spawned(s, req, ch) ==
  IF ch.pid < 0 THEN [s EXCEPT !.path = "fork_failed"]
  ELSE serve_requests_recv_rsp(
         [s EXCEPT !.forks = s.forks + 1, !.fpos = ch.fpos, !.rc = ch.rc,
                   !.path = "worker"],
         req, proto_recv_rsp(ch.pipe))

\* serve_requests, lines 94-113.
serve_requests_nonblocking(s, req, cmd, env) ==
  serve_requests_spawned(s, req,
    spawn_nonblock_child(req, cmd, s.file, s.fpos, env))

\* serve_requests, lines 117-122: r is the result of dispatch_request.
serve_requests_dispatched(s, req, r) ==
  IF r.rc # OS_ERROR
    THEN Deliver([s EXCEPT !.file = r.file, !.fpos = r.fpos, !.rc = r.rc,
                           !.path = IF r.rc = OS_SHUTDOWN THEN "shutdown"
                                                          ELSE "inline"],
                 req.hdr.pid, txp_reply(req.hdr.pid, r.rsp, r.rsp.hdr.len))
    ELSE [s EXCEPT !.file = r.file, !.fpos = r.fpos, !.rc = r.rc,
                   !.path = "handler_error"]

\* serve_requests, lines 116-122.
serve_requests_blocking(s, req, cmd, env) ==
  serve_requests_dispatched(s, req,
    dispatch_request(req, cmd, s.file, s.fpos, env))

\* serve_requests going on to the worker after a cache hit.
serve_requests_route_nocontinue(h, req, row, env) ==
  IF h.path = "hit" /\ row.blocking THEN h
  ELSE IF ~row.blocking THEN serve_requests_nonblocking(h, req, row, env)
  ELSE serve_requests_blocking(h, req, row, env)

\* serve_requests, lines 86-122: h is the pass after the cache check.
serve_requests_route(h, req, row, env) ==
  IF h.path = "hit" THEN h
  ELSE IF ~row.blocking THEN serve_requests_nonblocking(h, req, row, env)
  ELSE serve_requests_blocking(h, req, row, env)

\* serve_requests, lines 76-122: cmd is the result of cmd_by_opcode.
serve_requests_cmd(s, req, cmd, env) ==
  IF ~cmd.found THEN [s EXCEPT !.path = "unknown_opcode"]
  ELSE serve_requests_route(serve_requests_quick(s, req), req, cmd.row, env)

\* serve_requests, lines 73-122: rr is the result of proto_recv_req.
serve_requests_recv(s, rr, env) ==
  IF rr.rc = OS_ERROR THEN [s EXCEPT !.path = "recv_error"]
  ELSE serve_requests_cmd([s EXCEPT !.req = rr.req], rr.req,
                          cmd_by_opcode(rr.req.hdr.opcode), env)

\* One pass of the for loop of serve_requests; bs: the bytes the listen
\* FIFO yields to this pass.
serve_requests(s, bs, env) == serve_requests_recv(s, proto_recv_req(bs), env)

\* What the ghost variable pass holds when no request has been read.
NoPass == [n |-> 0, req |-> ReqFromBytes(<<>>), path |-> "none",
           sent |-> <<>>, forks |-> 0, puts |-> <<>>, rc |-> OS_OK,
           cached |-> FALSE, live |-> FALSE, kept |-> TRUE]

(***************************************************************************)
(* main after the serve loop (src/server/dserver.c, lines 152-158)         *)
(***************************************************************************)
\* m: the cache, the persistence file, whether the store descriptor is open
\* and whether the listen FIFO exists; every call leaves in m.trace what
\* the process looks like when it returns.
Logged(call, m) ==
  [m EXCEPT !.trace = Append(@, [call |-> call, disk |-> m.disk,
                                 cache_init |-> m.cache.init,
                                 stg_open |-> m.stg_open,
                                 fifo |-> m.fifo])]

main_cache_cleanup_done(m, c) ==
  Logged("cache_cleanup", [m EXCEPT !.cache = c.cache, !.disk = c.disk])

main_cache_cleanup(m) ==
  main_cache_cleanup_done(m, cache_cleanup(m.cache, m.disk))

\* waitpid(-1, NULL, WNOHANG) until no finished child is left.
reap_zombies(m) == Logged("reap_zombies", m)

stg_close(m) == Logged("stg_close", [m EXCEPT !.stg_open = FALSE])

\* The server's txp_close: closes the descriptors, unlinks the FIFO.
txp_close(m) == Logged("txp_close", [m EXCEPT !.fifo = FALSE])

\* main closing the store before it flushes the cache.
main_tail_storefirst(m) ==
  txp_close(reap_zombies(main_cache_cleanup(stg_close(m))))

\* main, lines 152-157, after serve_requests returned OS_SHUTDOWN.
main_tail(m) ==
  txp_close(stg_close(reap_zombies(main_cache_cleanup(m))))

\* What the ghost variable halt holds while main has not left the loop.
NoHalt == [status |-> -1, trace |-> <<>>]

ServerIdle ==
  /\ srv = "off" /\ nreq = 0 /\ pass = NoPass
  /\ answered = {} /\ halt = NoHalt

\* The variables of the step-level loop, of the argument codec, of the
\* matcher and of the client while they are not part of the scenario.
AuxIdle ==
  /\ loop = [pc |-> "off"] /\ codec = [stage |-> "off"]
  /\ matcher = [stage |-> "off"] /\ cli = [stage |-> "off"]
  /\ rd = [pc |-> "off"]
  /\ clamp = [pc |-> "off"] /\ lfifo = [pc |-> "off"]

(***************************************************************************)
(* Codec scenarios: build a frame and walk it, or walk a raw buffer        *)
(***************************************************************************)
TlvTypes == {ARG_STR, 7}
SmallVals == SeqsUpTo({1, 2}, MaxValLen)
\* Values at the edges of the 16-bit length field and of the payload region.
BigLens == {REQ_MAX - REQ_HDR_SZ - TLV_HDR_SZ, UINT16_MAX + 1}
RawBytes == {0, 1, 2}

NoCursor == [cur |-> 0, end |-> 0]

ProtoStart ==
  /\ ppc = "build"
  /\ \E kind \in {"req", "rsp"} :
       LET i == IF kind = "req" THEN proto_req_init(4, 1)
                                ELSE proto_rsp_init(4, 0)
       IN  frame = i.frame /\ bld = i.bld
  /\ added = <<>>
  /\ addFailed = FALSE
  /\ cmem = <<>>
  /\ cursor = NoCursor
  /\ yielded = <<>>
  /\ outcomes = <<>>
  /\ touched = {}

ProtoIdle ==
  /\ ppc = "off" /\ frame = proto_rsp_init(0, 0).frame
  /\ bld = proto_rsp_init(0, 0).bld /\ added = <<>> /\ addFailed = FALSE
  /\ cmem = <<>> /\ cursor = NoCursor /\ yielded = <<>> /\ outcomes = <<>>
  /\ touched = {}

ProtoInit ==
  ProtoStart /\ StoreIdle /\ ScanIdle /\ CacheIdle /\ ServerIdle /\ AuxIdle

DoAddTlv(type, val) ==
  LET r == proto_add_tlv(bld, frame.payload, type, val)
  IN  /\ ppc = "build"
      /\ Len(added) + (IF addFailed THEN 1 ELSE 0) < MaxTlvs
      /\ bld' = r.bld
      /\ frame' = [frame EXCEPT !.payload = r.payload]
      /\ added' = IF r.rc = OS_OK THEN Append(added, <<type, val>>) ELSE added
      /\ addFailed' = (addFailed \/ r.rc = OS_ERROR)
      /\ UNCHANGED <<ppc, cmem, cursor, yielded, outcomes, touched>>
      /\ UNCHANGED nonProtoVars

AddTlv ==
  \/ \E type \in TlvTypes, val \in SmallVals : DoAddTlv(type, val)
  \/ \E n \in BigLens : DoAddTlv(ARG_STR, Zeros(n))

\* finish, then a cursor over the frame's payload as the receivers set it up
\* (hdr.len - sizeof hdr bytes of payload).
Finish ==
  LET r == IF frame.kind = "req" THEN proto_req_finish(frame, bld)
                                 ELSE proto_rsp_finish(frame, bld)
  IN  /\ ppc = "build"
      /\ r.rc = OS_OK
      /\ frame' = r.frame
      /\ cmem' = frame.payload
      /\ cursor' = proto_cursor_init(r.frame.hdr.len - HdrSize(frame))
      /\ ppc' = "cursor"
      /\ UNCHANGED <<bld, added, addFailed, yielded, outcomes, touched>>
      /\ UNCHANGED nonProtoVars

\* A cursor over an arbitrary buffer: len bytes of a region mem.
CursorInitRaw ==
  /\ ppc = "build"
  /\ added = <<>> /\ ~addFailed
  /\ \E mem \in SeqsUpTo(RawBytes, MaxBuf) : \E len \in 0..Len(mem) :
       /\ cmem' = mem
       /\ cursor' = proto_cursor_init(len)
  /\ ppc' = "raw"
  /\ UNCHANGED <<frame, bld, added, addFailed, yielded, outcomes, touched>>
  /\ UNCHANGED nonProtoVars

CursorNext ==
  LET r == proto_cursor_next(cursor, cmem)
  IN  /\ ppc \in {"cursor", "raw"}
      /\ Len(outcomes) < MaxTlvs + 2
      /\ cursor' = r.cursor
      /\ outcomes' = Append(outcomes, r.st)
      /\ yielded' = IF r.st = OS_AGAIN
                      THEN Append(yielded,
                                  <<r.type, Bytes(cmem, r.voff, r.vlen)>>)
                      ELSE yielded
      /\ touched' = touched \cup r.reads \cup
                    (IF r.st = OS_AGAIN
                       THEN {r.voff + i : i \in 0..(r.vlen - 1)} ELSE {})
      /\ UNCHANGED <<ppc, frame, bld, added, addFailed, cmem>>
      /\ UNCHANGED nonProtoVars

ProtoNext == AddTlv \/ Finish \/ CursorInitRaw \/ CursorNext

SpecProto == ProtoInit /\ [][ProtoNext]_vars

RECURSIVE SumTlvSizes(_)
SumTlvSizes(tlvs) ==
  IF tlvs = <<>> THEN 0
  ELSE TLV_HDR_SZ + Len(tlvs[1][2]) + SumTlvSizes(Tail(tlvs))

\* C2 (framing): when every proto_add_tlv call succeeded, finish stamps
\* hdr.len = header size + the sum of (3 + len) over the TLVs added, and a
\* cursor over the payload yields the added (type, bytes, len) sequence in
\* order and reports End on every call after the last TLV.
Thm_C2_Framing ==
  (ppc = "cursor" /\ ~addFailed) =>
    /\ frame.hdr.len = HdrSize(frame) + SumTlvSizes(added)
    /\ yielded = SubSeq(added, 1, Min(Len(outcomes), Len(added)))
    /\ \A i \in 1..Len(outcomes) :
         outcomes[i] = IF i <= Len(added) THEN OS_AGAIN ELSE OS_OK

Wit_C2_Framing ==
  /\ ppc = "cursor" /\ ~addFailed
  /\ Len(added) = MaxTlvs
  /\ \E i \in 1..Len(added) : Len(added[i][2]) > 0
  /\ yielded = added
  /\ Len(outcomes) > Len(added)

\* C3 (cursor safety): over any buffer and after any number of
\* proto_cursor_next calls the position stays within [start, end], every
\* byte the cursor reads or exposes in a yielded value lies below end, and
\* the outcomes are a run of More followed only by End or only by Corrupt.
Thm_C3_CursorSafety ==
  (ppc \in {"raw", "cursor"}) =>
    /\ 0 <= cursor.cur /\ cursor.cur <= cursor.end
    /\ \A o \in touched : 0 <= o /\ o < cursor.end
    /\ \A i \in 1..Len(outcomes) : \A j \in (i + 1)..Len(outcomes) :
         outcomes[i] # OS_AGAIN => outcomes[j] = outcomes[i]
    /\ \A i \in 1..Len(outcomes) :
         outcomes[i] \in {OS_AGAIN, OS_OK, OS_ERROR}

Wit_C3_CursorSafety ==
  /\ ppc = "raw"
  /\ Len(yielded) >= 1
  /\ Len(outcomes) >= 3 /\ cursor.cur > 0
  /\ outcomes[Len(outcomes)] = OS_ERROR


(***************************************************************************)
(* Store specification                                                     *)
(***************************************************************************)
StoreInit ==
  StoreIdle /\ ProtoIdle /\ ScanIdle /\ CacheIdle /\ ServerIdle /\ AuxIdle

StoreNext == StgAdd \/ StgGet \/ StgDel

SpecStore == StoreInit /\ [][StoreNext]_vars

IsLive(f, k) == k \in 0..(Len(f) - 1) /\ f[k + 1].key = k

\* C7 (key assignment): successive Adds on an initially empty store return
\* 0, 1, 2, ...; every row i holds key i or the tombstone -1; a slot that
\* was deleted stays a tombstone and is never handed to a later Add.
Thm_C7_KeyAssignment ==
  /\ \A i \in 1..Len(addRets) : addRets[i] = i - 1
  /\ \A i \in 1..Len(file) : file[i].key \in {i - 1, -1}
  /\ \A k \in deleted : k \in 0..(Len(file) - 1) /\ file[k + 1] = Tombstone
  /\ lastOp.op = "add" =>
       /\ lastOp.key = Len(lastOp.before)
       /\ \A i \in 1..Len(lastOp.before) : file[i] = lastOp.before[i]

\* An Add that follows a Delete of a lower slot.
Wit_C7_KeyAssignment ==
  /\ lastOp.op = "add"
  /\ Len(addRets) = MaxRows
  /\ deleted # {}
  /\ \E i \in 1..Len(lastOp.before) : lastOp.before[i].key = -1

\* C8 (delete frame): right after Delete(k) succeeded on a live key k,
\* Get(k) fails, Get(k') returns the record it returned before for every
\* other live key k', Total is unchanged, and a second Delete(k) fails and
\* leaves the store file unchanged.
Thm_C8_DeleteFrame ==
  (lastOp.op = "del" /\ lastOp.rc = OS_OK) =>
    /\ IsLive(lastOp.before, lastOp.key)
    /\ stg_get_doc(file, fpos, lastOp.key).rc = OS_ERROR
    /\ \A k \in StoreKeys :
         (k # lastOp.key /\ IsLive(lastOp.before, k)) =>
           /\ stg_get_doc(file, fpos, k).rc = OS_OK
           /\ stg_get_doc(file, fpos, k).out
                = stg_get_doc(lastOp.before, fpos, k).out
    /\ stg_total(file) = stg_total(lastOp.before)
    /\ stg_del_doc(file, fpos, lastOp.key).rc = OS_ERROR
    /\ stg_del_doc(file, fpos, lastOp.key).file = file

\* A successful Delete of key 0 with another live key beside it.
Wit_C8_DeleteFrame ==
  /\ lastOp.op = "del" /\ lastOp.rc = OS_OK /\ lastOp.key = 0
  /\ \E k \in 1..MaxRows : IsLive(file, k)

(***************************************************************************)
(* Scan specification: one S handler run over a store the dispatcher can   *)
(* have built, for each term, requested worker count and cpu count         *)
(***************************************************************************)
ScanTerms == {<<120>>, <<121>>}
ScanRequested == {0, 2, 25}

\* Stores reachable by Add and Delete: row i holds key i or the tombstone.
ScanStores ==
  UNION {{[i \in 1..n |-> IF p[i] = <<>> THEN Tombstone
                          ELSE [key |-> i - 1, title |-> <<84>>,
                                authors |-> <<65>>, path |-> p[i],
                                year |-> 2020]] :
          p \in [1..n -> DocPaths \cup {<<>>}]} : n \in 0..MaxScanDocs}

ScanInit ==
  /\ ProtoIdle /\ CacheIdle /\ ServerIdle /\ AuxIdle
  /\ file \in ScanStores /\ fpos \in {0, Len(file)}
  /\ addRets = <<>> /\ deleted = {} /\ lastOp = NoOp
  /\ spc = "entry"
  /\ sreq \in [kw : ScanTerms, requested : ScanRequested, cpus : {1, 2}]
  /\ stotal = 0 /\ sworkers = 0 /\ snext = 0 /\ next_key = 0
  /\ bmp = <<>> /\ wpc = <<>> /\ wk = <<>> /\ wbyte = <<>> /\ sfound = {}
  /\ smaps = {} /\ sgot = <<>>
  /\ src = OS_OK

ScanNext == ScanStart \/ ScanFork \/ ScanForkFail \/ WorkerStep \/ ScanWait

SpecScan == ScanInit /\ [][ScanNext]_vars

\* What one worker alone reports: the live keys whose file holds the term.
SeqScanKeys ==
  {k \in 0..(Len(file) - 1) :
     /\ stg_get_doc(file, 0, k).rc = OS_OK
     /\ doc_contains_keyword(stg_get_doc(file, 0, k).out.path, sreq.kw) = 1}

\* C1 (scan determinism): the keys in the bitmap the parent reads after all
\* workers have exited are the same for every worker count and every
\* interleaving, i.e. they are the keys the single-worker scan reports.
Cex_C1_ScanDeterminism ==
  (spc = "returned" /\ src = OS_OK) => BitmapKeys = SeqScanKeys

(***************************************************************************)
(* Cache specification                                                     *)
(***************************************************************************)
CacheSpecInit ==
  CacheIdle /\ ProtoIdle /\ StoreIdle /\ ScanIdle /\ ServerIdle /\ AuxIdle

CacheNext == CacheInit \/ CacheGet \/ CachePut \/ CacheCleanup

SpecCache == CacheSpecInit /\ [][CacheNext]_vars

\* The keys of the list, following prev from tail.
RECURSIVE ListBack(_, _, _)
ListBack(c, e, fuel) ==
  IF e = NULL \/ fuel = 0 \/ e \notin DOMAIN c.nodes THEN <<>>
  ELSE <<c.nodes[e].key>> \o ListBack(c, c.nodes[e].prev, fuel - 1)

Reverse(seq) == [i \in 1..Len(seq) |-> seq[Len(seq) + 1 - i]]

\* C4 (cache structure): in every state reached by Init, Get and Put the
\* list holds as many nodes as the index holds keys and as count says,
\* every indexed key refers to exactly one list node, head/tail and the
\* prev/next links agree, and count <= capacity when capacity > 0.
Thm_C4_CacheStructure ==
  cache.init =>
    LET fwd == ListKeys(cache)
        bwd == ListBack(cache, cache.tail, Cardinality(DOMAIN cache.nodes) + 1)
    IN  /\ Len(fwd) = cache.count
        /\ Cardinality(DOMAIN cache.ht) = cache.count
        /\ Cardinality(DOMAIN cache.nodes) = cache.count
        /\ \A k \in DOMAIN cache.ht :
             /\ cache.ht[k] \in DOMAIN cache.nodes
             /\ cache.nodes[cache.ht[k]].key = k
             /\ Cardinality({i \in 1..Len(fwd) : fwd[i] = k}) = 1
        /\ bwd = Reverse(fwd)
        /\ (cache.head = NULL) = (cache.count = 0)
        /\ (cache.tail = NULL) = (cache.count = 0)
        /\ cache.head # NULL => cache.nodes[cache.head].prev = NULL
        /\ cache.tail # NULL => cache.nodes[cache.tail].next = NULL
        /\ \A n \in DOMAIN cache.nodes :
             /\ cache.nodes[n].next # NULL =>
                  /\ cache.nodes[n].next \in DOMAIN cache.nodes
                  /\ cache.nodes[cache.nodes[n].next].prev = n
             /\ cache.nodes[n].prev # NULL =>
                  /\ cache.nodes[n].prev \in DOMAIN cache.nodes
                  /\ cache.nodes[cache.nodes[n].prev].next = n
        /\ cache.cap > 0 => cache.count <= cache.cap

\* A full cache right after a Get hit on its tail entry.
Wit_C4_CacheStructure ==
  /\ cache.init /\ cache.count = MaxCap /\ cache.cap = MaxCap
  /\ lastCache.op = "get" /\ lastCache.rc = OS_OK
  /\ lastCache.before[Len(lastCache.before)] = lastCache.key
  /\ Len(lastCache.before) > 1

\* C5 (LRU order): the key last accessed by a Get hit or a Put is at the
\* front, the keys accessed since Init lead the list in decreasing recency
\* of their last access (entries loaded at Init and not accessed since are
\* older than any access), and a Put that evicts removes the entry whose
\* last access is the earliest: the tail of the list.
Thm_C5_LruOrder ==
  cache.init =>
    /\ Len(recency) <= Len(ListKeys(cache))
    /\ SubSeq(ListKeys(cache), 1, Len(recency)) = recency
    /\ (lastCache.op = "get" /\ lastCache.rc = OS_OK) =>
         ListKeys(cache)[1] = lastCache.key
    /\ (lastCache.op = "put" /\ cache.cap > 0) =>
         ListKeys(cache)[1] = lastCache.key
    /\ lastCache.evicted # {} =>
         /\ lastCache.op = "put"
         /\ lastCache.evicted = {lastCache.before[Len(lastCache.before)]}
         /\ lastCache.key \notin lastCache.evicted
         /\ \A v \in lastCache.evicted :
              \/ \A i \in 1..Len(lastCache.recBefore) :
                   lastCache.recBefore[i] # v
              \/ /\ lastCache.recBefore[Len(lastCache.recBefore)] = v
                 /\ Len(lastCache.recBefore) = Len(lastCache.before)

\* An eviction from a full cache all of whose entries were accessed.
Wit_C5_LruOrder ==
  /\ cache.init /\ lastCache.op = "put" /\ lastCache.evicted # {}
  /\ Len(lastCache.before) = MaxCap
  /\ Len(lastCache.recBefore) = MaxCap

\* C6 (persistence): for capacity > 0 and a key of 1..255 bytes, the Get(k)
\* that ends Init; Put(k, v); Cleanup; Init; Get(k) is a hit whose frame
\* equals v byte for byte.
Thm_C6_Persistence ==
  trail.stage = 4 =>
    /\ lastCache.op = "get" /\ lastCache.key = trail.key
    /\ lastCache.rc = OS_OK
    /\ lastCache.out.hdr.len = trail.rsp.hdr.len
    /\ RspBytes(lastCache.out, lastCache.out.hdr.len)
         = RspBytes(trail.rsp, trail.rsp.hdr.len)

\* The sequence completed with a key of 255 bytes.
Wit_C6_Persistence ==
  /\ trail.stage = 4 /\ Len(trail.key) = MAX_KEY_LEN
  /\ lastCache.rc = OS_OK /\ Len(trail.rsp.payload) > 0

(***************************************************************************)
(* Server specification: dserver booted on an empty store, serving any     *)
(* sequence of request frames, shut down by F and booted again             *)
(***************************************************************************)
MaxReqs == 4

\* build_request of the client for arguments already encoded.
RECURSIVE AddArgs(_, _, _)
AddArgs(a, args, i) ==
  IF i > Len(args) THEN a
  ELSE AddArgs(proto_add_tlv(a.bld, a.payload, args[i].type, args[i].val),
               args, i + 1)

BuildReq(op, pid, args) ==
  LET i == proto_req_init(op, pid)
      a == AddArgs([rc |-> OS_OK, bld |-> i.bld, payload |-> i.frame.payload],
                   args, 1)
      f == proto_req_finish([i.frame EXCEPT !.payload = a.payload],
                            a.bld).frame
  IN  ReqBytes(f, f.hdr.len)

ArgU32(n) == [type |-> ARG_U32, val |-> LE32(n)]
ArgStr(s) == [type |-> ARG_STR, val |-> s]

\* The frames that arrive on the listen FIFO: well-formed requests of every
\* opcode, requests that fail the schema, a corrupt TLV, an unknown opcode,
\* a frame whose length field is below the header size, and a request whose
\* pid names no client.
ServerInputs ==
  { BuildReq(OP_A, 5, <<ArgStr(<<84>>), ArgStr(<<65>>), ArgU32(2020),
                        ArgStr(<<97>>)>>),
    BuildReq(OP_A, 5, <<ArgStr(<<84>>)>>),
    BuildReq(OP_C, 5, <<ArgU32(0)>>),
    BuildReq(OP_C, 5, <<ArgStr(<<120>>)>>),
    ReqBytes([kind |-> "req",
              hdr |-> [len |-> 10, opcode |-> OP_C, pid |-> 5],
              payload |-> <<ARG_U32, 9, 0>>], 10),
    BuildReq(OP_D, 5, <<ArgU32(0)>>),
    BuildReq(OP_L, 5, <<ArgU32(0), ArgStr(<<120>>)>>),
    BuildReq(OP_S, 5, <<ArgStr(<<120>>)>>),
    BuildReq(OP_S, 5, <<ArgStr(<<122>>), ArgU32(2)>>),
    BuildReq(OP_S, 5, <<ArgStr(<<120>>), ArgStr(<<120>>)>>),
    BuildReq(OP_S, 0, <<ArgStr(<<120>>)>>),
    BuildReq(OP_F, 5, <<>>),
    BuildReq(9, 5, <<>>),
    Zeros(REQ_HDR_SZ) }

\* What the environment decides during the pass that reads bs: whether
\* fork succeeds in the dispatcher and in the scan and, for a scan of two or
\* more documents, what the workers' races do.
Envs(f, bs, forkOk) ==
  IF ByteAt(bs, 2) # OP_S
    THEN [fork : {forkOk}, scan_fork : {TRUE}, cpus : {1}, lost : {{}},
          off : {Len(f)}]
  ELSE IF Len(f) < 2
    THEN [fork : {forkOk}, scan_fork : BOOLEAN, cpus : {1}, lost : {{}},
          off : {Len(f)}]
    ELSE [fork : {forkOk}, scan_fork : BOOLEAN, cpus : {1},
          lost : SUBSET (0..(Len(f) - 1)), off : 0..Len(f)]

\* The state a pass starts from.
PassStart ==
  [cache |-> cache, file |-> file, fpos |-> fpos,
   n |-> pass.n + 1, req |-> ReqFromBytes(<<>>), path |-> "",
   sent |-> <<>>, forks |-> 0, puts |-> <<>>, rc |-> OS_OK]

\* Whether the pass that read req found the key of an S request in the
\* cache it started from; kw is the result of proto_arg_first_str.
Cached(req, kw) ==
  /\ req.hdr.opcode = OP_S /\ kw.rc = OS_OK
  /\ cache.init /\ kw.str \in DOMAIN cache.ht

\* Whether the key that a C or D request names is a live row of the store
\* the pass started from; d is the result of dismantle_request.
KeyLive(req, d) ==
  /\ req.hdr.opcode \in {OP_C, OP_D} /\ d.rc = OS_OK
  /\ IsLive(file, ToInt(U32(d.args[1])))

\* The ghost record of the pass r.
PassRecord(r) ==
  [n |-> r.n, req |-> r.req, path |-> r.path, sent |-> r.sent,
   forks |-> r.forks, puts |-> r.puts, rc |-> r.rc,
   cached |-> r.path \notin {"recv_error", "unknown_opcode"}
                /\ Cached(r.req, proto_arg_first_str(r.req, 256)),
   live |-> r.path \notin {"recv_error", "unknown_opcode"}
              /\ KeyLive(r.req, dismantle_request(r.req,
                                  cmd_by_opcode(r.req.hdr.opcode).row)),
   kept |-> r.file = file]

\* The ghost variable answered after a pass that gave puts to cache_put.
Answer(a, puts) ==
  IF puts = <<>> THEN a
  ELSE {p \in a : p[1] # puts[1].key}
         \cup {<<puts[1].key, proto_send_rsp(puts[1].rsp)>>}

\* The pass r is over and serve_requests loops.
Commit(r) ==
  /\ cache' = r.cache /\ file' = r.file /\ fpos' = r.fpos
  /\ pass' = PassRecord(r)
  /\ answered' = Answer(answered, r.puts)
  /\ nreq' = nreq + 1
  /\ UNCHANGED <<srv, disk, halt>>

\* The pass r took the given path.
PassVia(path, r) == r.path = path /\ Commit(r)

\* main up to the call of serve_requests.
SrvBoot ==
  /\ srv = "down"
  /\ \E cap \in 0..MaxCap : cache' = cache_init(cache, disk, cap).cache
  /\ srv' = "serving"
  /\ pass' = NoPass
  /\ halt' = NoHalt
  /\ UNCHANGED <<nreq, disk, file, fpos, answered>>
  /\ UNCHANGED nonServerVars

SrvRecvError ==
  /\ srv = "serving" /\ nreq < MaxReqs
  /\ \E bs \in ServerInputs : \E env \in Envs(file, bs, TRUE) :
       PassVia("recv_error", serve_requests(PassStart, bs, env))
  /\ UNCHANGED nonServerVars

SrvUnknownOpcode ==
  /\ srv = "serving" /\ nreq < MaxReqs
  /\ \E bs \in ServerInputs : \E env \in Envs(file, bs, TRUE) :
       PassVia("unknown_opcode", serve_requests(PassStart, bs, env))
  /\ UNCHANGED nonServerVars

SrvCacheHit ==
  /\ srv = "serving" /\ nreq < MaxReqs
  /\ \E bs \in ServerInputs : \E env \in Envs(file, bs, TRUE) :
       PassVia("hit", serve_requests(PassStart, bs, env))
  /\ UNCHANGED nonServerVars

SrvForkFail ==
  /\ srv = "serving" /\ nreq < MaxReqs
  /\ \E bs \in ServerInputs : \E env \in Envs(file, bs, FALSE) :
       PassVia("fork_failed", serve_requests(PassStart, bs, env))
  /\ UNCHANGED nonServerVars

SrvWorker ==
  /\ srv = "serving" /\ nreq < MaxReqs
  /\ \E bs \in ServerInputs : \E env \in Envs(file, bs, TRUE) :
       PassVia("worker", serve_requests(PassStart, bs, env))
  /\ UNCHANGED nonServerVars

SrvInline ==
  /\ srv = "serving" /\ nreq < MaxReqs
  /\ \E bs \in ServerInputs : \E env \in Envs(file, bs, TRUE) :
       PassVia("inline", serve_requests(PassStart, bs, env))
  /\ UNCHANGED nonServerVars

SrvHandlerError ==
  /\ srv = "serving" /\ nreq < MaxReqs
  /\ \E bs \in ServerInputs : \E env \in Envs(file, bs, TRUE) :
       PassVia("handler_error", serve_requests(PassStart, bs, env))
  /\ UNCHANGED nonServerVars

\* main after serve_requests has returned from the pass r; m: the process
\* when main returns EXIT_SUCCESS.
Shutdown(r, m) ==
  /\ r.path = "shutdown"
  /\ cache' = m.cache /\ disk' = m.disk
  /\ file' = r.file /\ fpos' = r.fpos
  /\ pass' = PassRecord(r)
  /\ answered' = Answer(answered, r.puts)
  /\ halt' = [status |-> 0, trace |-> m.trace]

\* The pass that handles F, then the rest of main.
ShutdownPass(r) ==
  Shutdown(r, main_tail([cache |-> r.cache, disk |-> disk, stg_open |-> TRUE,
                         fifo |-> TRUE, trace |-> <<>>]))

SrvShutdown ==
  /\ srv = "serving" /\ nreq < MaxReqs
  /\ \E bs \in ServerInputs : \E env \in Envs(file, bs, TRUE) :
       ShutdownPass(serve_requests(PassStart, bs, env))
  /\ nreq' = nreq + 1
  /\ srv' = "down"
  /\ UNCHANGED nonServerVars

ServerInit ==
  /\ ProtoIdle /\ StoreIdle /\ ScanIdle /\ CacheIdle /\ AuxIdle
  /\ srv = "down" /\ nreq = 0 /\ pass = NoPass
  /\ answered = {} /\ halt = NoHalt

ServerNext ==
  \/ SrvBoot \/ SrvRecvError \/ SrvUnknownOpcode \/ SrvCacheHit
  \/ SrvForkFail \/ SrvWorker \/ SrvInline \/ SrvHandlerError
  \/ SrvShutdown

SpecServer == ServerInit /\ [][ServerNext]_vars

\* C9 (reply well-formedness): every frame delivered to a client, whether
\* built by a handler, synthesised as ERR in a child or served from the
\* cache (entries loaded from the persistence file included), has a header
\* length equal to the number of bytes written to the reply FIFO and the
\* opcode of the request being answered.
Thm_C9_ReplyWellFormed ==
  \A i \in 1..Len(pass.sent) :
    LET b == pass.sent[i].bytes
    IN  /\ Len(b) >= RSP_HDR_SZ
        /\ RdLE16(b, 0) = Len(b)
        /\ ByteAt(b, 2) = pass.req.hdr.opcode

\* The first request after a boot is answered from the cache: the frame
\* was loaded from the persistence file.
Wit_C9_ReplyWellFormed ==
  /\ pass.path = "hit" /\ pass.n = 1 /\ Len(pass.sent) = 1
  /\ srv = "serving"

\* C10 (one reply per request): a pass of the serve loop sends at most one
\* frame, to the FIFO of the request's pid; it sends exactly one unless the
\* dispatcher drops the request (receive error, unknown opcode, fork
\* failure, error of a blocking handler); a cache hit forks no worker.
Thm_C10_OneReply ==
  /\ Len(pass.sent) <= 1
  /\ \A i \in 1..Len(pass.sent) : pass.sent[i].pid = pass.req.hdr.pid
  /\ (pass.path \in {"hit", "worker", "inline", "shutdown"}
        /\ pass.req.hdr.pid \in Clients) => Len(pass.sent) = 1
  /\ pass.path \in {"recv_error", "unknown_opcode", "fork_failed",
                    "handler_error"} => Len(pass.sent) = 0
  /\ pass.path = "hit" => pass.forks = 0

\* A cache hit answered once, without a worker.
Wit_C10_OneReply ==
  /\ pass.path = "hit" /\ Len(pass.sent) = 1 /\ pass.forks = 0
  /\ pass.req.hdr.pid \in Clients

PassKey == proto_arg_first_str(pass.req, 256).str

\* C12 (repeat from the cache): an S request whose term is in the cache
\* when it is read is answered from the cache, with the very bytes the
\* worker produced when the term was last scanned, and forks no child.
Thm_C12_RepeatFromCache ==
  pass.cached =>
    /\ pass.path = "hit"
    /\ pass.forks = 0 /\ pass.puts = <<>>
    /\ \E p \in answered : p[1] = PassKey
    /\ pass.req.hdr.pid \in Clients =>
         /\ Len(pass.sent) = 1
         /\ \A p \in answered : p[1] = PassKey => pass.sent[1].bytes = p[2]

\* The second of two S requests for a term within one run of the server.
Wit_C12_RepeatFromCache ==
  /\ pass.cached /\ pass.path = "hit" /\ pass.n = 2
  /\ Len(pass.sent) = 1 /\ srv = "serving"

\* The calls of the trace of main's tail, in order.
HaltCalls == [i \in 1..Len(halt.trace) |-> halt.trace[i].call]

\* C13 (shutdown): an F request is answered with "Server is shutting down"
\* in the pass that reads it; the loop then ends, no further request is
\* read, and main flushes the cache, reaps children, closes the store and
\* removes the listen FIFO, in this order, and exits with status 0.
Thm_C13_Shutdown ==
  /\ (pass.req.hdr.opcode = OP_F /\ pass.path # "recv_error") =>
       pass.path = "shutdown"
  /\ (srv = "down" /\ nreq > 0) => pass.path = "shutdown"
  /\ pass.path = "shutdown" =>
       /\ srv = "down" /\ pass.req.hdr.opcode = OP_F
       /\ pass.req.hdr.pid \in Clients =>
            pass.sent = <<[pid |-> pass.req.hdr.pid,
                           bytes |-> proto_send_rsp(
                             proto_build_simple_rsp(OP_F, MsgShutdown))]>>
       /\ halt.status = 0
       /\ HaltCalls = <<"cache_cleanup", "reap_zombies", "stg_close",
                        "txp_close">>
       /\ halt.trace[1].stg_open /\ halt.trace[1].fifo
       /\ ~halt.trace[1].cache_init /\ halt.trace[1].disk = disk
       /\ halt.trace[2].stg_open /\ halt.trace[2].fifo
       /\ ~halt.trace[3].stg_open /\ halt.trace[3].fifo
       /\ ~halt.trace[4].fifo
       /\ ~cache.init

\* A shutdown that flushed a cache holding an entry.
Wit_C13_Shutdown ==
  /\ pass.path = "shutdown" /\ srv = "down" /\ halt.status = 0
  /\ Len(pass.sent) = 1 /\ disk.exists /\ Len(disk.bytes) > 4

\* "[k1, k2, ...]" for a set of keys, in ascending order.
RECURSIVE KeyList(_)
KeyList(keys) ==
  IF keys = {} THEN <<>>
  ELSE LET k == CHOOSE x \in keys : \A y \in keys : x <= y
       IN  Dec(k) \o (IF keys = {k} THEN <<>> ELSE <<44, 32>>)
             \o KeyList(keys \ {k})

\* The last pass read an S request that passes the command's schema.
ValidS ==
  /\ pass.path \in {"hit", "worker"} /\ pass.req.hdr.opcode = OP_S
  /\ dismantle_request(pass.req, cmd_by_opcode(OP_S).row).rc = OS_OK

\* C16 (S reply): for every store, the empty one and one whose rows are all
\* tombstones included, a valid S request that a worker scans (the forks of
\* the scan succeeding) is answered by one string TLV "[k1, k2, ...]" with
\* the keys found in ascending order, "[]" when there is none.
Cex_C16_ScanReply ==
  (ValidS /\ pass.path = "worker" /\ pass.req.hdr.pid \in Clients
     /\ (pass.rc = OS_OK \/ Len(file) = 0)) =>
    /\ Len(pass.sent) = 1
    /\ \E keys \in SUBSET (0..(Len(file) - 1)) :
         pass.sent[1].bytes
           = proto_send_rsp(proto_build_simple_rsp(OP_S,
               <<91>> \o KeyList(keys) \o <<93>>))

\* The last pass read a C or D request that passes the command's schema.
ValidKeyed(op) ==
  /\ pass.path \notin {"none", "recv_error", "unknown_opcode"}
  /\ pass.req.hdr.opcode = op
  /\ dismantle_request(pass.req, cmd_by_opcode(op).row).rc = OS_OK

\* The key a valid C or D request names.
PassDocKey ==
  ToInt(U32(dismantle_request(pass.req,
          cmd_by_opcode(pass.req.hdr.opcode).row).args[1]))

\* C17 (logical not found): a C request for a key that is out of range or
\* a tombstone is answered with "Document not found", a D request for such
\* a key with "Index entry <key> not found"; the handler returns no error,
\* the request is not dropped and the store file is unchanged.
Thm_C17_NotFound ==
  /\ (ValidKeyed(OP_C) /\ ~pass.live /\ pass.path # "fork_failed") =>
       /\ pass.path = "worker" /\ pass.rc = OS_OK /\ pass.kept
       /\ pass.req.hdr.pid \in Clients =>
            /\ Len(pass.sent) = 1
            /\ pass.sent[1].bytes = proto_send_rsp(
                  proto_build_simple_rsp(OP_C, MsgDocNotFound))
  /\ (ValidKeyed(OP_D) /\ ~pass.live) =>
       /\ pass.path = "inline" /\ pass.rc = OS_OK /\ pass.kept
       /\ pass.req.hdr.pid \in Clients =>
            /\ Len(pass.sent) = 1
            /\ pass.sent[1].bytes = proto_send_rsp(
                  proto_build_simple_rsp(OP_D, MsgEntryNotFound(PassDocKey)))

\* A C request for a key that an earlier D request turned into a tombstone.
Wit_C17_NotFound ==
  /\ ValidKeyed(OP_C) /\ ~pass.live /\ pass.path = "worker"
  /\ Len(file) > 0 /\ file[1] = Tombstone /\ Len(pass.sent) = 1

(***************************************************************************)
(* Serve loop, step by step (src/server/dserver.c, lines 29-124): the      *)
(* parent, the children it forks and the clients run concurrently; frames  *)
(* are reduced to the opcode, the sender and whether they arrive intact    *)
(***************************************************************************)
MaxSends == 3
MaxLoopWorkers == 2

\* The requests the clients write to the listen FIFO: blocking and
\* non-blocking commands, F, an unknown opcode and a frame cut short.
LoopRequests ==
  [op : {OP_A, OP_S, OP_F, 9}, pid : {5, 6}, ok : {TRUE}]
    \cup [op : {OP_C}, pid : {5}, ok : {FALSE}]

\* What the environment decides during a pass: whether the term of an S
\* request is in the cache, whether pipe and fork succeed, what the handler
\* returns.
LoopEnvs(req) ==
  [hit : IF req.op = OP_S THEN BOOLEAN ELSE {FALSE},
   fork : BOOLEAN,
   rc : IF req.op = OP_F THEN {OS_SHUTDOWN} ELSE {OS_OK, OS_ERROR}]

\* serve_requests, lines 73-122, up to the point where the pass ends or the
\* parent blocks on the pipe of the child it forked.
serve_requests_step(req, env) ==
  IF ~req.ok THEN [kind |-> "drop", why |-> "recv_error"]
  ELSE IF ~cmd_by_opcode(req.op).found
    THEN [kind |-> "drop", why |-> "unknown_opcode"]
  ELSE IF req.op = OP_S /\ env.hit THEN [kind |-> "reply", why |-> "hit"]
  ELSE IF ~cmd_by_opcode(req.op).row.blocking
    THEN IF env.fork THEN [kind |-> "fork", why |-> "worker"]
                     ELSE [kind |-> "drop", why |-> "fork_failed"]
  ELSE IF env.rc = OS_SHUTDOWN THEN [kind |-> "shutdown", why |-> "inline"]
  ELSE IF env.rc # OS_ERROR THEN [kind |-> "reply", why |-> "inline"]
  ELSE [kind |-> "drop", why |-> "handler_error"]

\* proto_recv_rsp on the pipe returning although the child has written
\* nothing yet.
serve_requests_wait_nonblock(pipe) == TRUE

\* serve_requests, line 101: proto_recv_rsp blocks in read until the child
\* has written its frame.
serve_requests_wait(pipe) == pipe # <<>>

\* reap_zombies: the children that have exited are collected.
LoopReap(kids) == [k \in {i \in DOMAIN kids : kids[i] # "exited"} |-> kids[k]]

LoopEvent(ev, req, why) ==
  [ev |-> ev, id |-> req.id, pid |-> req.pid, why |-> why]

\* The processes that can still read the store: the dispatcher children
\* inside their handler, the scan workers their parent waits for and the
\* scan workers whose parent left scan_parallel without waiting.
LoopReaders(l) ==
  Cardinality({i \in DOMAIN l.kids : l.kids[i] = "run"})
    + l.scan.mine + l.orphans

\* No scan is under way.
NoScan == [forked |-> 0, mine |-> 0, over |-> FALSE]

\* A client writes a request frame to the listen FIFO.
ClientSend ==
  /\ loop.pc # "off" /\ loop.sends < MaxSends
  /\ \E q \in LoopRequests :
       loop' = [loop EXCEPT
                  !.sends = @ + 1,
                  !.fifo = Append(@, [id |-> loop.sends + 1, op |-> q.op,
                                      pid |-> q.pid, ok |-> q.ok])]
  /\ UNCHANGED <<codec, matcher, cli, rd, clamp, lfifo>>
  /\ UNCHANGED nonAuxVars

\* The state of the loop after the pass over req that ended with outcome
\* o and left the parent at pc1.
LoopAfter(l, req, o, pc1) ==
  [l EXCEPT
     !.pc = pc1,
     !.fifo = Tail(@),
     !.cur = req,
     !.kids = IF o.kind = "fork"
                THEN [i \in DOMAIN LoopReap(@) \cup {req.id} |->
                        IF i = req.id THEN "run" ELSE LoopReap(@)[i]]
                ELSE LoopReap(@),
     !.inline = IF o.why \in {"inline", "handler_error"}
                  THEN Append(@, [id |-> req.id, op |-> req.op,
                                  readers |-> LoopReaders(l)])
                  ELSE @,
     !.log = @ \o <<LoopEvent("read", req, "")>>
               \o (IF o.kind = "fork" THEN <<>>
                   ELSE IF o.kind = "drop"
                     THEN <<LoopEvent("drop", req, o.why)>>
                     ELSE <<LoopEvent("reply", req, o.why)>>)]

\* The parent, at the top of the loop, takes the next frame off the FIFO
\* and the pass ends without a reply.
LoopDrop ==
  /\ loop.pc = "recv" /\ loop.fifo # <<>>
  /\ \E env \in LoopEnvs(Head(loop.fifo)) :
       /\ serve_requests_step(Head(loop.fifo), env).kind = "drop"
       /\ loop' = LoopAfter(loop, Head(loop.fifo),
                            serve_requests_step(Head(loop.fifo), env), "recv")
  /\ UNCHANGED <<codec, matcher, cli, rd, clamp, lfifo>>
  /\ UNCHANGED nonAuxVars

\* The pass ends with a reply from the cache or from an inline handler.
LoopReplyNow ==
  /\ loop.pc = "recv" /\ loop.fifo # <<>>
  /\ \E env \in LoopEnvs(Head(loop.fifo)) :
       /\ serve_requests_step(Head(loop.fifo), env).kind = "reply"
       /\ loop' = LoopAfter(loop, Head(loop.fifo),
                            serve_requests_step(Head(loop.fifo), env), "recv")
  /\ UNCHANGED <<codec, matcher, cli, rd, clamp, lfifo>>
  /\ UNCHANGED nonAuxVars

\* The parent forks a child and blocks on the read end of its pipe.
LoopFork ==
  /\ loop.pc = "recv" /\ loop.fifo # <<>>
  /\ \E env \in LoopEnvs(Head(loop.fifo)) :
       /\ serve_requests_step(Head(loop.fifo), env).kind = "fork"
       /\ loop' = LoopAfter(loop, Head(loop.fifo),
                            serve_requests_step(Head(loop.fifo), env), "await")
  /\ UNCHANGED <<codec, matcher, cli, rd, clamp, lfifo>>
  /\ UNCHANGED nonAuxVars

\* F: the reply is sent and serve_requests returns.
LoopShutdown ==
  /\ loop.pc = "recv" /\ loop.fifo # <<>>
  /\ \E env \in LoopEnvs(Head(loop.fifo)) :
       /\ serve_requests_step(Head(loop.fifo), env).kind = "shutdown"
       /\ loop' = LoopAfter(loop, Head(loop.fifo),
                            serve_requests_step(Head(loop.fifo), env),
                            "returned")
  /\ UNCHANGED <<codec, matcher, cli, rd, clamp, lfifo>>
  /\ UNCHANGED nonAuxVars

\* scan_parallel in the child of an S request, lines 41-60: one more
\* scan worker is forked.
ChildScanFork ==
  /\ loop.pc = "await" /\ loop.cur.op = OP_S
  /\ \E i \in DOMAIN loop.kids : loop.kids[i] = "run"
  /\ ~loop.scan.over /\ loop.scan.forked < MaxLoopWorkers
  /\ loop' = [loop EXCEPT !.scan.forked = @ + 1, !.scan.mine = @ + 1]
  /\ UNCHANGED <<codec, matcher, cli, rd, clamp, lfifo>>
  /\ UNCHANGED nonAuxVars

\* scan_parallel, line 44: fork fails and the function returns OS_ERROR at
\* once; the workers forked before are not waited for.
ChildScanForkFail ==
  /\ loop.pc = "await" /\ loop.cur.op = OP_S
  /\ \E i \in DOMAIN loop.kids : loop.kids[i] = "run"
  /\ ~loop.scan.over /\ loop.scan.forked < MaxLoopWorkers
  /\ loop' = [loop EXCEPT
                !.scan = [forked |-> 0, mine |-> 0, over |-> TRUE],
                !.orphans = @ + loop.scan.mine]
  /\ UNCHANGED <<codec, matcher, cli, rd, clamp, lfifo>>
  /\ UNCHANGED nonAuxVars

\* A scan worker finds next_key >= total and exits (handle_s.c, lines
\* 50-57) while scan_parallel is still running.
WorkerExit ==
  /\ loop.pc # "off" /\ loop.scan.mine > 0
  /\ loop' = [loop EXCEPT !.scan.mine = @ - 1]
  /\ UNCHANGED <<codec, matcher, cli, rd, clamp, lfifo>>
  /\ UNCHANGED nonAuxVars

\* The same for a worker whose parent has left scan_parallel.
OrphanExit ==
  /\ loop.pc # "off" /\ loop.orphans > 0
  /\ loop' = [loop EXCEPT !.orphans = @ - 1]
  /\ UNCHANGED <<codec, matcher, cli, rd, clamp, lfifo>>
  /\ UNCHANGED nonAuxVars

\* A child's handler returns (scan_parallel, lines 62-63, has waited for
\* every worker it forked, unless a fork failed) and the child writes its
\* frame (the handler's, or ERR) to the pipe.
ChildWrite ==
  /\ loop.pc # "off" /\ loop.scan.mine = 0
  /\ \E i \in DOMAIN loop.kids :
       /\ loop.kids[i] = "run"
       /\ loop' = [loop EXCEPT !.kids[i] = "wrote", !.pipe = <<i>>,
                               !.scan = NoScan]
  /\ UNCHANGED <<codec, matcher, cli, rd, clamp, lfifo>>
  /\ UNCHANGED nonAuxVars

ChildExit ==
  /\ loop.pc # "off"
  /\ \E i \in DOMAIN loop.kids :
       /\ loop.kids[i] = "wrote"
       /\ loop' = [loop EXCEPT !.kids[i] = "exited"]
  /\ UNCHANGED <<codec, matcher, cli, rd, clamp, lfifo>>
  /\ UNCHANGED nonAuxVars

\* serve_requests, lines 101-112: the parent gets the frame from the pipe
\* and replies; without a frame it goes on to the next request.
LoopAwait ==
  /\ loop.pc = "await" /\ serve_requests_wait(loop.pipe)
  /\ loop' = [loop EXCEPT
       !.pc = "recv",
       !.pipe = <<>>,
       !.log = Append(@, IF loop.pipe # <<>>
                           THEN LoopEvent("reply", loop.cur, "worker")
                           ELSE LoopEvent("drop", loop.cur, "no_frame"))]
  /\ UNCHANGED <<codec, matcher, cli, rd, clamp, lfifo>>
  /\ UNCHANGED nonAuxVars

LoopInit ==
  /\ ProtoIdle /\ StoreIdle /\ ScanIdle /\ CacheIdle /\ ServerIdle
  /\ codec = [stage |-> "off"] /\ matcher = [stage |-> "off"]
  /\ cli = [stage |-> "off"] /\ rd = [pc |-> "off"]
  /\ clamp = [pc |-> "off"] /\ lfifo = [pc |-> "off"]
  /\ loop = [pc |-> "recv", fifo |-> <<>>, sends |-> 0,
             cur |-> [id |-> 0, op |-> 0, pid |-> 0, ok |-> FALSE],
             kids |-> <<>>, pipe |-> <<>>, log |-> <<>>,
             scan |-> NoScan, orphans |-> 0, inline |-> <<>>]

LoopNext ==
  \/ ClientSend \/ LoopDrop \/ LoopReplyNow \/ LoopFork \/ LoopShutdown
  \/ ChildScanFork \/ ChildScanForkFail \/ WorkerExit \/ OrphanExit
  \/ ChildWrite \/ ChildExit \/ LoopAwait

SpecLoop == LoopInit /\ [][LoopNext]_vars

\* C15 (one request at a time): the parent reads the next request only
\* after the previous one was answered or dropped (a child it forked has
\* written its frame by then and the frame was delivered), so replies
\* follow the order in which requests were read, which is the order in
\* which they entered the FIFO, and each client sees its replies in the
\* order of its requests.
Thm_C15_FifoOrder ==
  /\ loop.pc \in {"recv", "returned"} =>
       \A i \in DOMAIN loop.kids : loop.kids[i] # "run"
  /\ \A j \in 1..Len(loop.log) :
       /\ loop.log[j].ev = "read" =>
            /\ j > 1 => loop.log[j - 1].ev \in {"reply", "drop"}
            /\ \A h \in 1..(j - 1) : loop.log[h].id <= loop.log[j].id
       /\ loop.log[j].ev \in {"reply", "drop"} =>
            /\ j > 1 /\ loop.log[j - 1].ev = "read"
            /\ loop.log[j - 1].id = loop.log[j].id
       /\ loop.log[j].ev = "drop" =>
            loop.log[j].why \in {"recv_error", "unknown_opcode",
                                 "fork_failed", "handler_error"}
  /\ \A j \in 1..Len(loop.log) : \A h \in 1..(j - 1) :
       (loop.log[j].ev = "reply" /\ loop.log[h].ev = "reply"
          /\ loop.log[j].pid = loop.log[h].pid) =>
         loop.log[h].id < loop.log[j].id

\* A client's second request is read after the worker's reply to its first
\* one was delivered, while that worker has not exited yet.
Wit_C15_FifoOrder ==
  /\ Len(loop.log) >= 3
  /\ loop.log[2].ev = "reply" /\ loop.log[2].why = "worker"
  /\ loop.log[3].ev = "read" /\ loop.log[3].pid = loop.log[2].pid
  /\ \E i \in DOMAIN loop.kids : loop.kids[i] = "wrote"

\* C23 (no mutation while readers run): whenever the parent runs the
\* handler of a blocking command (A, D or F) inline, no dispatcher child is
\* inside its handler and no scan worker forked for an earlier request is
\* still running, so no Add or Delete changes the store under a reader.
Cex_C23_NoReaders ==
  \A j \in 1..Len(loop.inline) : loop.inline[j].readers = 0

(***************************************************************************)
(* Keyword matcher on arbitrary contents (src/server/doc/docutil.c)        *)
(***************************************************************************)
MaxDocLen == 4
MaxKwLen == 3

\* Document contents and terms over a two-letter alphabet and the newline.
DocContents == SeqsUpTo({97, 98, NL}, MaxDocLen)
DocTerms == SeqsUpTo({97, 98}, MaxKwLen) \ {<<>>}

\* doc_contains_keyword on an open file with content buf.
doc_contains_buf(buf, kw) ==
  LET r == doc_count_buf(buf, kw, TRUE)
  IN  IF r.rc = OS_OK THEN r.out ELSE r.rc

MatcherInit ==
  /\ ProtoIdle /\ StoreIdle /\ ScanIdle /\ CacheIdle /\ ServerIdle
  /\ loop = [pc |-> "off"] /\ codec = [stage |-> "off"]
  /\ cli = [stage |-> "off"] /\ rd = [pc |-> "off"]
  /\ clamp = [pc |-> "off"] /\ lfifo = [pc |-> "off"]
  /\ \E buf \in DocContents, kw \in DocTerms :
       matcher = [stage |-> "ready", content |-> buf, kw |-> kw,
                  ran |-> {}, contains |-> 0, count |-> 0]

\* The S workers' test of one document.
MatchContains ==
  /\ matcher.stage = "ready" /\ "contains" \notin matcher.ran
  /\ matcher' = [matcher EXCEPT
                   !.ran = @ \cup {"contains"},
                   !.contains = doc_contains_buf(matcher.content, matcher.kw)]
  /\ UNCHANGED <<loop, codec, cli, rd, clamp, lfifo>>
  /\ UNCHANGED nonAuxVars

\* handle_l's count of the lines of one document.
MatchCount ==
  /\ matcher.stage = "ready" /\ "count" \notin matcher.ran
  /\ matcher' = [matcher EXCEPT
                   !.ran = @ \cup {"count"},
                   !.count = doc_count_buf(matcher.content, matcher.kw,
                                           FALSE).out]
  /\ UNCHANGED <<loop, codec, cli, rd, clamp, lfifo>>
  /\ UNCHANGED nonAuxVars

MatcherNext == MatchContains \/ MatchCount

SpecMatcher == MatcherInit /\ [][MatcherNext]_vars

\* kw occurs in buf as a contiguous substring.
IsSubstring(kw, buf) ==
  \E i \in 0..(Len(buf) - Len(kw)) :
    \A j \in 1..Len(kw) : buf[i + j] = kw[j]

\* C19 (contains is substring search): doc_contains_keyword returns 1
\* exactly when the term occurs in the content as a contiguous substring.
Cex_C19_Substring ==
  (matcher.stage = "ready" /\ "contains" \in matcher.ran) =>
    ((matcher.contains = 1) <=> IsSubstring(matcher.kw, matcher.content))

\* The lines of buf: the pieces between newlines, a non-empty final piece
\* without a newline included.
RECURSIVE SplitLines(_, _)
SplitLines(buf, cur) ==
  IF buf = <<>> THEN (IF cur = <<>> THEN <<>> ELSE <<cur>>)
  ELSE IF Head(buf) = NL THEN <<cur>> \o SplitLines(Tail(buf), <<>>)
  ELSE SplitLines(Tail(buf), Append(cur, Head(buf)))

\* The matcher, started at the beginning of the line, completes kw on it.
MatcherCompletes(line, kw) == doc_contains_buf(line, kw) = 1

LinesCompleted(buf, kw) ==
  Cardinality({i \in 1..Len(SplitLines(buf, <<>>)) :
                 MatcherCompletes(SplitLines(buf, <<>>)[i], kw)})

\* C20 (line count): with stop_at_first = 0 the count is the number of
\* lines on which the matcher completed the term, a matched final line
\* without a trailing newline included.
Cex_C20_LastLine ==
  (matcher.stage = "ready" /\ "count" \in matcher.ran) =>
    matcher.count = LinesCompleted(matcher.content, matcher.kw)

(***************************************************************************)
(* u32 argument codec (src/common/arg_codec.c)                             *)
(***************************************************************************)
\* A uint32_t is held as its four bytes, least significant first; hi and lo
\* are its 16-bit halves.
U32Lo(b) == b[1] + 256 * b[2]
U32Hi(b) == b[3] + 256 * b[4]
U32OfHalves(hi, lo) == LE16(lo) \o LE16(hi)

\* The values the round trip is run on: every byte from the edges and the
\* middle of its range, 4294967295 included.
U32Samples == [1..4 -> {0, 1, 127, 128, 255}]

\* The decimal string of the number with halves hi and lo (printf's %u).
RECURSIVE DecimalOf(_, _)
DecimalOf(hi, lo) ==
  IF hi = 0 /\ lo < 10 THEN <<48 + lo>>
  ELSE DecimalOf(hi \div 10, ((hi % 10) * 65536 + lo) \div 10)
         \o <<48 + (((hi % 10) * 65536 + lo) % 10)>>

\* Strings no uint32_t prints as: empty, not a number, trailing letter,
\* 4294967296, 99999999999.
BadRaws ==
  {<<>>, <<97>>, <<49, 97>>,
   <<52, 50, 57, 52, 57, 54, 55, 50, 57, 54>>,
   <<57, 57, 57, 57, 57, 57, 57, 57, 57, 57, 57>>}

IsDigit(c) == c >= 48 /\ c <= 57

\* strtoul(raw, &end, 10) on a string of digits and letters: end is the
\* number of characters consumed; a value above UINT32_MAX is kept as
\* hi = 65536.
RECURSIVE strtoul(_, _, _, _)
strtoul(raw, i, hi, lo) ==
  IF i > Len(raw) \/ ~IsDigit(raw[i]) THEN [end |-> i - 1, hi |-> hi, lo |-> lo]
  ELSE strtoul(raw, i + 1,
               Min(hi * 10 + ((lo * 10 + (raw[i] - 48)) \div 65536), 65536),
               (lo * 10 + (raw[i] - 48)) % 65536)

\* enc_u32 after strtoul returned v.
enc_u32_val(b, payload, raw, v) ==
  IF v.end = 0 \/ v.end # Len(raw)
    THEN [rc |-> OS_ERROR, bld |-> b, payload |-> payload]
  ELSE IF v.hi > UINT16_MAX
    THEN [rc |-> OS_ERROR, bld |-> b, payload |-> payload]
  ELSE proto_add_tlv(b, payload, ARG_U32, U32OfHalves(v.hi, v.lo))

enc_u32(b, payload, raw) ==
  enc_u32_val(b, payload, raw, strtoul(raw, 1, 0, 0))

\* The first TLV of a payload of used bytes, through arg_decoders.
DecodeFirst(n, payload) ==
  IF n.st # OS_AGAIN THEN [rc |-> OS_ERROR, arg |-> ZeroArg]
  ELSE arg_decoders(n.type, Bytes(payload, n.voff, n.vlen))

CodecInit ==
  /\ ProtoIdle /\ StoreIdle /\ ScanIdle /\ CacheIdle /\ ServerIdle
  /\ loop = [pc |-> "off"] /\ matcher = [stage |-> "off"]
  /\ cli = [stage |-> "off"] /\ rd = [pc |-> "off"]
  /\ clamp = [pc |-> "off"] /\ lfifo = [pc |-> "off"]
  /\ \E raw \in {DecimalOf(U32Hi(x), U32Lo(x)) : x \in U32Samples}
                  \cup BadRaws :
       codec = [stage |-> "raw", raw |-> raw,
                enc |-> [rc |-> OS_OK, bld |-> proto_req_init(OP_C, 5).bld,
                         payload |-> <<>>],
                dec |-> [rc |-> OS_OK, arg |-> ZeroArg]]

\* build_request: the encoder of the argument's type on a fresh builder.
CodecEncode ==
  /\ codec.stage = "raw"
  /\ codec' = [codec EXCEPT
                 !.stage = "encoded",
                 !.enc = enc_u32(codec.enc.bld, codec.enc.payload, codec.raw)]
  /\ UNCHANGED <<loop, matcher, cli, rd, clamp, lfifo>>
  /\ UNCHANGED nonAuxVars

\* dismantle_request: the cursor and the decoder on the built payload.
CodecDecode ==
  /\ codec.stage = "encoded" /\ codec.enc.rc = OS_OK
  /\ codec' = [codec EXCEPT
                 !.stage = "decoded",
                 !.dec = DecodeFirst(
                           proto_cursor_next(
                             proto_cursor_init(codec.enc.bld.used),
                             codec.enc.payload),
                           codec.enc.payload)]
  /\ UNCHANGED <<loop, matcher, cli, rd, clamp, lfifo>>
  /\ UNCHANGED nonAuxVars

CodecNext == CodecEncode \/ CodecDecode

SpecCodec == CodecInit /\ [][CodecNext]_vars

\* C14 (u32 round trip): the decimal string of every x in [0, 2^32) is
\* encoded as one u32 TLV with a 4-byte value, and decoding that value
\* gives x back.
Thm_C14_U32RoundTrip ==
  \A x \in U32Samples :
    (codec.stage # "off" /\ codec.raw = DecimalOf(U32Hi(x), U32Lo(x))) =>
      /\ codec.stage \in {"encoded", "decoded"} =>
           /\ codec.enc.rc = OS_OK
           /\ codec.enc.payload = TlvBytes(ARG_U32, x)
      /\ codec.stage = "decoded" =>
           /\ codec.dec.rc = OS_OK
           /\ codec.dec.arg.type = ARG_U32
           /\ codec.dec.arg.u32 = x

\* 4294967295 went through the encoder and the decoder.
Wit_C14_U32RoundTrip ==
  /\ codec.stage = "decoded"
  /\ codec.raw = <<52, 50, 57, 52, 57, 54, 55, 50, 57, 53>>
  /\ codec.dec.arg.u32 = <<255, 255, 255, 255>>

(***************************************************************************)
(* Client (src/dclient.c)                                                  *)
(***************************************************************************)
EXIT_SUCCESS == 0
EXIT_FAILURE == 1

MaxArgs == 4

\* The command lines: the flag of one of the six commands or an unknown
\* flag (OP_COUNT stands for it), followed by up to MaxArgs arguments: "7",
\* "a" or the empty string.
ClientArgvs ==
  [op : 0..OP_COUNT, args : SeqsUpTo({<<>>, <<55>>, <<97>>}, MaxArgs)]

\* What the reply FIFO yields: a string reply, a u32 reply, nothing (EOF),
\* a frame whose u32 TLV has a 1-byte value, a frame whose TLV has a type
\* tag that is no argument type.
ClientWires ==
  {proto_send_rsp(proto_build_simple_rsp(OP_C, <<111, 107>>)),
   <<4 + 7, 0, OP_L, 0>> \o TlvBytes(ARG_U32, <<3, 0, 0, 0>>),
   <<>>,
   <<4 + 4, 0, OP_L, 0>> \o TlvBytes(ARG_U32, <<3>>),
   <<4 + 4, 0, OP_L, 0>> \o TlvBytes(7, <<3>>)}

\* The values an uninitialised int may be read as.
IndeterminateInts == {OS_ERROR, OS_OK, 1}

\* command_parse: cmd_by_flag, then the bounds on the argument count.
command_parse(op, nargs) ==
  IF ~cmd_by_opcode(op).found THEN [found |-> FALSE, row |-> cmd_table[1]]
  ELSE IF nargs < cmd_by_opcode(op).row.argc_min
         \/ nargs > cmd_by_opcode(op).row.argc_max
    THEN [found |-> FALSE, row |-> cmd_table[1]]
    ELSE cmd_by_opcode(op)

enc_str(b, payload, raw) ==
  IF Len(raw) > UINT16_MAX
    THEN [rc |-> OS_ERROR, bld |-> b, payload |-> payload]
    ELSE proto_add_tlv(b, payload, ARG_STR, raw)

arg_encoders(t, b, payload, raw) ==
  IF t = ARG_U32 THEN enc_u32(b, payload, raw) ELSE enc_str(b, payload, raw)

\* The loop of build_request from argument i on; e is the result of the
\* previous encoder.
RECURSIVE BuildLoop(_, _, _, _)
BuildLoop(e, argv, types, i) ==
  IF e.rc = OS_ERROR \/ i > Len(argv) THEN e
  ELSE BuildLoop(arg_encoders(types[i], e.bld, e.payload, argv[i]),
                 argv, types, i + 1)

build_request_finish(f, e) ==
  IF e.rc = OS_ERROR THEN [rc |-> OS_ERROR, frame |-> f]
  ELSE proto_req_finish([f EXCEPT !.payload = e.payload], e.bld)

\* build_request encoding every argument as a string, whatever the row
\* says.
build_request_allstr(argv, opcode, types, pid) ==
  build_request_finish(
    proto_req_init(opcode, pid).frame,
    BuildLoop([rc |-> OS_OK, bld |-> proto_req_init(opcode, pid).bld,
               payload |-> <<>>], argv, [i \in DOMAIN types |-> ARG_STR], 1))

build_request(argv, opcode, types, pid) ==
  build_request_finish(
    proto_req_init(opcode, pid).frame,
    BuildLoop([rc |-> OS_OK, bld |-> proto_req_init(opcode, pid).bld,
               payload |-> <<>>], argv, types, 1))

\* The loop of dismantle_response: n is the cursor's step.
RECURSIVE DismantleRsp(_, _)
DismantleRsp(rsp, n) ==
  IF n.st # OS_AGAIN THEN OS_OK
  ELSE IF arg_decoders(n.type, Bytes(rsp.payload, n.voff, n.vlen)).rc
            = OS_ERROR
    THEN OS_ERROR
    ELSE DismantleRsp(rsp, proto_cursor_next(n.cursor, rsp.payload))

dismantle_response(rsp) ==
  DismantleRsp(rsp,
    proto_cursor_next(proto_cursor_init(rsp.hdr.len - RSP_HDR_SZ),
                      rsp.payload))

\* The type tags with which dismantle_response (line 44) indexes
\* arg_decoders, up to the first TLV that ends the walk; an index outside
\* the table ends it with undefined behaviour.
RECURSIVE RspIndexesFrom(_, _)
RspIndexesFrom(rsp, n) ==
  IF n.st # OS_AGAIN THEN {}
  ELSE IF n.type >= ARG_COUNT THEN {n.type}
  ELSE IF arg_decoders(n.type, Bytes(rsp.payload, n.voff, n.vlen)).rc
            = OS_ERROR
    THEN {n.type}
    ELSE {n.type} \cup RspIndexesFrom(rsp, proto_cursor_next(n.cursor,
                                                             rsp.payload))

RspIndexes(rsp) ==
  RspIndexesFrom(rsp,
    proto_cursor_next(proto_cursor_init(rsp.hdr.len - RSP_HDR_SZ),
                      rsp.payload))

\* The type tags with which dismantle_request (lines 76 and 81) indexes
\* arg_decoders.
RECURSIVE ReqIndexesFrom(_, _, _, _)
ReqIndexesFrom(req, row, cur, i) ==
  IF i >= row.argc_max THEN {}
  ELSE LET n == proto_cursor_next(cur, req.payload) IN
    IF n.st # OS_AGAIN THEN {}
    ELSE IF n.type # row.types[i + 1] THEN {}
    ELSE IF arg_decoders(n.type, Bytes(req.payload, n.voff, n.vlen)).rc
              = OS_ERROR
      THEN {n.type}
      ELSE {n.type} \cup ReqIndexesFrom(req, row, n.cursor, i + 1)

ReqIndexes(req, row) ==
  ReqIndexesFrom(req, row, proto_cursor_init(req.hdr.len - REQ_HDR_SZ), 0)

\* handle_conn: both goto fail jump over the initialisation of ret, which
\* is then returned as junk; so is the outcome of a dismantle_response that
\* reads arg_decoders outside the table.
handle_conn(open, send, rcv, junk) ==
  IF ~open THEN OS_ERROR
  ELSE IF ~send THEN junk
  ELSE IF rcv.rc = OS_ERROR THEN junk
  ELSE IF \E t \in RspIndexes(rcv.rsp) : t >= ARG_COUNT THEN junk
  ELSE dismantle_response(rcv.rsp)

\* The step of the exchange that failed, as handle_conn's messages name it.
ConnFailure(open, send, rcv) ==
  IF ~open THEN "open"
  ELSE IF ~send THEN "send"
  ELSE IF rcv.rc = OS_ERROR THEN "receive"
  ELSE IF dismantle_response(rcv.rsp) = OS_ERROR THEN "decode"
  ELSE "none"

ClientInit ==
  /\ ProtoIdle /\ StoreIdle /\ ScanIdle /\ CacheIdle /\ ServerIdle
  /\ loop = [pc |-> "off"] /\ codec = [stage |-> "off"]
  /\ matcher = [stage |-> "off"] /\ rd = [pc |-> "off"]
  /\ clamp = [pc |-> "off"] /\ lfifo = [pc |-> "off"]
  /\ \E a \in ClientArgvs, open \in BOOLEAN, send \in BOOLEAN,
        wire \in ClientWires :
       cli = [stage |-> "main", argv |-> a, open |-> open, send |-> send,
              wire |-> wire, req |-> proto_req_init(0, 0).frame,
              failed |-> "none", indexed |-> {}, exit |-> -1]

\* main up to handle_conn, when parsing and building succeed.
ClientBuild ==
  /\ cli.stage = "main"
  /\ command_parse(cli.argv.op, Len(cli.argv.args)).found
  /\ build_request(cli.argv.args, cli.argv.op,
       command_parse(cli.argv.op, Len(cli.argv.args)).row.types, 5).rc
       # OS_ERROR
  /\ cli' = [cli EXCEPT
       !.stage = "built",
       !.req = build_request(cli.argv.args, cli.argv.op,
                 command_parse(cli.argv.op, Len(cli.argv.args)).row.types,
                 5).frame]
  /\ UNCHANGED <<loop, codec, matcher, rd, clamp, lfifo>>
  /\ UNCHANGED nonAuxVars

\* main returning EXIT_FAILURE before any exchange.
ClientReject ==
  /\ cli.stage = "main"
  /\ IF ~command_parse(cli.argv.op, Len(cli.argv.args)).found
       THEN cli' = [cli EXCEPT !.stage = "exited", !.failed = "parse",
                               !.exit = EXIT_FAILURE]
       ELSE /\ build_request(cli.argv.args, cli.argv.op,
                 command_parse(cli.argv.op, Len(cli.argv.args)).row.types,
                 5).rc = OS_ERROR
            /\ cli' = [cli EXCEPT !.stage = "exited", !.failed = "build",
                                  !.exit = EXIT_FAILURE]
  /\ UNCHANGED <<loop, codec, matcher, rd, clamp, lfifo>>
  /\ UNCHANGED nonAuxVars

\* handle_conn and the end of main.
ClientExchange ==
  /\ cli.stage = "built"
  /\ \E junk \in IndeterminateInts :
       cli' = [cli EXCEPT
         !.stage = "exited",
         !.failed = ConnFailure(cli.open, cli.send, proto_recv_rsp(cli.wire)),
         !.indexed = IF cli.open /\ cli.send
                          /\ proto_recv_rsp(cli.wire).rc # OS_ERROR
                       THEN RspIndexes(proto_recv_rsp(cli.wire).rsp)
                       ELSE {},
         !.exit = IF handle_conn(cli.open, cli.send,
                                 proto_recv_rsp(cli.wire), junk) = OS_ERROR
                    THEN EXIT_FAILURE ELSE EXIT_SUCCESS]
  /\ UNCHANGED <<loop, codec, matcher, rd, clamp, lfifo>>
  /\ UNCHANGED nonAuxVars

ClientNext == ClientBuild \/ ClientReject \/ ClientExchange

SpecClient == ClientInit /\ [][ClientNext]_vars

\* C18 (client exit status): the client exits with a non-zero status
\* whenever parsing, building, opening, sending, receiving or decoding
\* failed, and with 0 only when none of them did.
Cex_C18_ExitStatus ==
  cli.stage = "exited" => ((cli.exit = EXIT_SUCCESS) <=> (cli.failed = "none"))

(***************************************************************************)
(* No-op cache backend (src/server/cache/cache_none.c)                     *)
(***************************************************************************)
cache_none_init(n) == OS_OK
cache_none_get(kw) == [rc |-> OS_ERROR, out |-> NoRsp]
cache_none_put(d, kw, rsp) == d
cache_none_cleanup(d) == d

\* C21 (capacity 0 is the no-op backend): with capacity 0, Init succeeds
\* and loads nothing from the persistence file, every Get misses whatever
\* was Put, count stays 0, and no operation, Cleanup included, touches the
\* persistence file: each observable result is that of cache_none.
Thm_C21_CapZero ==
  [][/\ (~cache.init /\ cache'.init /\ cache'.cap = 0) =>
          /\ cache_init(cache, disk, 0).rc = cache_none_init(0)
          /\ cache'.count = 0 /\ ListKeys(cache') = <<>>
          /\ disk' = disk
     /\ (cache.init /\ cache.cap = 0) =>
          /\ cache'.init => (cache'.count = 0 /\ DOMAIN cache'.ht = {})
          /\ lastCache'.op = "get" =>
               /\ lastCache'.rc = cache_none_get(lastCache'.key).rc
               /\ lastCache'.out = cache_none_get(lastCache'.key).out
          /\ lastCache'.op = "put" =>
               disk' = cache_none_put(disk, lastCache'.key, NoRsp)
          /\ lastCache'.op = "cleanup" => disk' = cache_none_cleanup(disk)]_vars

\* A Put into a cache of capacity 0 that was initialised while a
\* persistence file with entries existed: nothing was loaded, nothing is
\* stored.
Wit_C21_CapZero ==
  /\ cache.init /\ cache.cap = 0 /\ lastCache.op = "put"
  /\ cache.count = 0
  /\ disk.exists /\ RdLE32(disk.bytes, 0) > 0

\* C25 (order across a restart): Init with a capacity of at least the
\* number of persisted entries rebuilds the list that Cleanup wrote, in the
\* same MRU-first order, so that dumping the reloaded cache would give the
\* persistence file again and the tail (the next victim) is the same key.
Cex_C25_ReloadOrder ==
  [][(~cache.init /\ cache'.init /\ disk.exists
        /\ FileRead(disk.bytes, 0, 4) = OS_OK
        /\ cache'.cap >= RdLE32(disk.bytes, 0)) =>
       dump_to_disk(cache') = disk.bytes]_vars

\* C26 (End means exhausted): whenever proto_cursor_next reports End, no
\* payload byte remains: the cursor position equals the end of the payload.
Cex_C26_EndExhausted ==
  (ppc \in {"raw", "cursor"} /\ Len(outcomes) > 0
     /\ outcomes[Len(outcomes)] = OS_OK) =>
    cursor.cur = cursor.end

\* The last pass read a request whose opcode is in the command table and
\* whose payload dismantle_request rejects.
FailsSchema ==
  /\ pass.path \notin {"none", "recv_error", "unknown_opcode"}
  /\ dismantle_request(pass.req,
                       cmd_by_opcode(pass.req.hdr.opcode).row).rc = OS_ERROR

\* C22 (schema failure is a drop): a request whose payload fails the schema
\* of its command (argument missing, wrong TLV type, u32 of a length other
\* than 4, corrupt TLV) gets no reply, whether its command is blocking or
\* not.
Cex_C22_SchemaDrop ==
  FailsSchema => Len(pass.sent) = 0

\* The frame a child writes for an S request that failed.
ErrFrameS == proto_send_rsp(proto_build_simple_rsp(OP_S, MsgErr))

\* C29 (no ERR in the cache): a frame is given to cache_put only when the
\* S handler returned success, it is never the synthetic ERR frame of a
\* failed child, and a valid S request is never answered from the cache
\* with ERR.
Cex_C29_NoErrCached ==
  /\ pass.puts # <<>> => pass.rc = OS_OK
  /\ \A p \in answered : p[2] # ErrFrameS
  /\ (ValidS /\ pass.path = "hit") =>
       \A i \in 1..Len(pass.sent) : pass.sent[i].bytes # ErrFrameS

\* The live keys of the store whose document contains the term t.
LiveMatches(t) ==
  {k \in 0..(Len(file) - 1) :
     IsLive(file, k) /\ doc_contains_keyword(file[k + 1].path, t) = 1}

\* C30 (S replies are current): the reply to a valid S request, from a
\* worker that succeeded or from the cache, lists exactly the keys that
\* are live and contain the term in the store as it is when the reply is
\* sent.
Cex_C30_FreshReply ==
  (ValidS /\ Len(pass.sent) = 1
     /\ (pass.path = "hit" \/ pass.rc = OS_OK)) =>
    pass.sent[1].bytes
      = proto_send_rsp(proto_build_simple_rsp(OP_S,
          <<91>> \o KeyList(LiveMatches(PassKey)) \o <<93>>))

\* C27 (seek and read are one step): whenever a scan worker executes the
\* read of stg_get_doc for a live key k, the descriptor it shares with the
\* other workers is at the offset of record k, whatever the others did
\* since its own lseek, and the record it gets is record k.
Cex_C27_SeekRead ==
  [][\A w \in DOMAIN wpc :
       (wpc[w] = "read" /\ wpc'[w] # "read" /\ IsLive(file, wk[w])) =>
         /\ fpos = get_offset(wk[w])
         /\ ReadRec(file, fpos).rec.key = wk[w]]_vars

\* C28 (bitmap): once scan_parallel has waited for all its workers, the
\* bits set in the shared bitmap are exactly the keys for which a worker's
\* doc_key_contains_keyword returned 1.
Cex_C28_Bitmap ==
  (spc = "returned" /\ src = OS_OK) => BitmapKeys = sfound

(***************************************************************************)
(* Whole-frame read (src/common/transport.c, txp_read), one read() call    *)
(* per step                                                                *)
(***************************************************************************)
MaxReadLen == 4

\* txp_read, lines 191-194: the parameter check; then the loop condition.
txp_read_enter(r) ==
  IF ~r.buf_ok \/ r.fd < 0 THEN [r EXCEPT !.pc = "returned", !.rc = OS_ERROR]
  ELSE IF r.got < r.cap THEN [r EXCEPT !.pc = "loop"]
  ELSE [r EXCEPT !.pc = "returned", !.rc = OS_OK]

\* One iteration of the loop, lines 199-210: read() returned n and set
\* errno.
txp_read_iter(r, n, errno) ==
  IF n <= 0
    THEN [r EXCEPT !.pc = "returned", !.rc = OS_ERROR,
                   !.calls = Append(@, [n |-> n, errno |-> errno])]
    ELSE [r EXCEPT
            !.got = @ + n,
            !.buf = @ \o SubSeq(r.stream, r.got + 1, r.got + n),
            !.calls = Append(@, [n |-> n, errno |-> "none"]),
            !.pc = IF r.got + n < r.cap THEN "loop" ELSE "returned",
            !.rc = OS_OK]

\* The caller asks for cap bytes of a stream that holds avail bytes before
\* its end.
ReadInit ==
  /\ ProtoIdle /\ StoreIdle /\ ScanIdle /\ CacheIdle /\ ServerIdle
  /\ loop = [pc |-> "off"] /\ codec = [stage |-> "off"]
  /\ matcher = [stage |-> "off"] /\ cli = [stage |-> "off"]
  /\ clamp = [pc |-> "off"] /\ lfifo = [pc |-> "off"]
  /\ \E cap \in 0..MaxReadLen, avail \in 0..MaxReadLen, fd \in {-1, 3},
        buf_ok \in BOOLEAN :
       rd = [pc |-> "call", cap |-> cap, fd |-> fd, buf_ok |-> buf_ok,
             stream |-> [i \in 1..avail |-> 64 + i], got |-> 0,
             buf |-> <<>>, calls |-> <<>>, rc |-> OS_OK]

ReadEnter ==
  /\ rd.pc = "call"
  /\ rd' = txp_read_enter(rd)
  /\ UNCHANGED <<loop, codec, matcher, cli, clamp, lfifo>>
  /\ UNCHANGED nonAuxVars

\* read() returns some of the bytes asked for.
ReadData ==
  /\ rd.pc = "loop"
  /\ \E n \in 1..Min(rd.cap - rd.got, Len(rd.stream) - rd.got) :
       rd' = txp_read_iter(rd, n, "none")
  /\ UNCHANGED <<loop, codec, matcher, cli, clamp, lfifo>>
  /\ UNCHANGED nonAuxVars

\* read() returns 0: the stream has ended.
ReadEof ==
  /\ rd.pc = "loop" /\ rd.got = Len(rd.stream)
  /\ rd' = txp_read_iter(rd, 0, "none")
  /\ UNCHANGED <<loop, codec, matcher, cli, clamp, lfifo>>
  /\ UNCHANGED nonAuxVars

\* read() is interrupted by a signal before it transferred anything.
ReadEintr ==
  /\ rd.pc = "loop"
  /\ rd' = txp_read_iter(rd, -1, "EINTR")
  /\ UNCHANGED <<loop, codec, matcher, cli, clamp, lfifo>>
  /\ UNCHANGED nonAuxVars

\* read() fails for another reason.
ReadFail ==
  /\ rd.pc = "loop"
  /\ rd' = txp_read_iter(rd, -1, "EIO")
  /\ UNCHANGED <<loop, codec, matcher, cli, clamp, lfifo>>
  /\ UNCHANGED nonAuxVars

ReadNext == ReadEnter \/ ReadData \/ ReadEof \/ ReadEintr \/ ReadFail

SpecRead == ReadInit /\ [][ReadNext]_vars

\* C24 (whole-frame read): called with valid arguments, txp_read returns an
\* error only when a read() reported the end of the stream or failed with
\* an errno other than EINTR (a read() interrupted by a signal is retried),
\* and it returns success only with the n bytes asked for in the buffer.
Cex_C24_ReadRetry ==
  (rd.pc = "returned" /\ rd.buf_ok /\ rd.fd >= 0) =>
    /\ rd.rc = OS_ERROR =>
         /\ rd.calls # <<>>
         /\ \/ rd.calls[Len(rd.calls)].n = 0
            \/ /\ rd.calls[Len(rd.calls)].n < 0
               /\ rd.calls[Len(rd.calls)].errno # "EINTR"
    /\ rd.rc = OS_OK =>
         /\ rd.got = rd.cap
         /\ rd.buf = SubSeq(rd.stream, 1, rd.cap)

\* C31 (cache after validation): a reply comes from the cache only for an
\* S request whose payload dismantle_request accepts against the schema row
\* of S; a malformed S request is never answered from the cache.
Cex_C31_HitValidated ==
  pass.path = "hit" =>
    dismantle_request(pass.req,
                      cmd_by_opcode(pass.req.hdr.opcode).row).rc # OS_ERROR

\* C32 (scan cleanup): on every return of the parallel scan, the one after
\* a failed fork included, the mapping of the shared counter and the
\* mapping of the bitmap are unmapped and every worker that was forked has
\* been waited for.
Cex_C32_ScanCleanup ==
  spc = "returned" =>
    /\ smaps = {}
    /\ \A w \in DOMAIN wpc : wpc[w] \in {"unborn", "reaped"}

\* The states of a worker between its fetch of a key and the end of the
\* scan of that key.
Scanning == {"seekend", "seekset", "read", "load", "store"}

\* C33 (disjoint work items): the shared counter hands out every value
\* once; a worker scans only a key below total that the counter gave to it,
\* so no two workers scan the same key; and when the scan has returned
\* with success every key in [0, total) was handed out, to one worker.
Thm_C33_DisjointKeys ==
  /\ \A i, j \in 1..Len(sgot) : i # j => sgot[i].k # sgot[j].k
  /\ \A w \in DOMAIN wpc :
       wpc[w] \in Scanning =>
         /\ wk[w] < stotal
         /\ \E i \in 1..Len(sgot) : sgot[i] = [w |-> w, k |-> wk[w]]
  /\ \A w, v \in DOMAIN wpc :
       (w # v /\ wpc[w] \in Scanning /\ wpc[v] \in Scanning) => wk[w] # wk[v]
  /\ (spc = "returned" /\ src = OS_OK) =>
       \A k \in 0..(stotal - 1) :
         Cardinality({i \in 1..Len(sgot) : sgot[i].k = k}) = 1

\* A scan of two documents by two workers has returned, each worker having
\* scanned one of the keys.
Wit_C33_DisjointKeys ==
  /\ spc = "returned" /\ src = OS_OK /\ stotal = 2 /\ sworkers = 2
  /\ \E i, j \in 1..Len(sgot) :
       /\ sgot[i].w = 1 /\ sgot[j].w = 2
       /\ sgot[i].k < stotal /\ sgot[j].k < stotal

\* C34 (bitmap read after the workers): when scan_parallel has returned
\* OS_OK and handle_s reads the bitmap, each of the W workers that were
\* forked has exited and has been waited for, so none of them is between
\* the load and the store of a bitmap byte.
Thm_C34_ReadAfterExit ==
  (spc = "returned" /\ src = OS_OK) =>
    /\ sworkers >= 1 /\ DOMAIN wpc = 1..sworkers
    /\ \A w \in Workers : wpc[w] = "reaped"

\* Two workers have each set a bit of the bitmap and the scan returned.
Wit_C34_ReadAfterExit ==
  /\ spc = "returned" /\ src = OS_OK /\ sworkers = 2
  /\ BitmapKeys = {0, 1}
  /\ \E i, j \in 1..Len(sgot) :
       sgot[i] = [w |-> 1, k |-> 0] /\ sgot[j] = [w |-> 2, k |-> 1]

(***************************************************************************)
(* The scan under fair scheduling: the handler and every worker that was   *)
(* forked keep being scheduled, and each system call returns               *)
(***************************************************************************)
\* Worker w exists and is in one of the given states.
WorkerAt(w, states) == w \in DOMAIN wpc /\ wpc[w] \in states

ScanFairness ==
  /\ WF_vars(ScanStart)
  /\ WF_vars(ScanFork \/ ScanForkFail)
  /\ WF_vars(ScanWait)
  /\ \A w \in 1..MaxScanDocs :
       WF_vars(/\ w \in DOMAIN wpc
               /\ \/ WFetch(w) \/ WSeekEnd(w) \/ WSeekSet(w) \/ WRead(w)
                  \/ WLoad(w) \/ WStore(w))

SpecScanFair == ScanInit /\ [][ScanNext]_vars /\ ScanFairness

\* C35 (the scan terminates): every worker that was forked leaves its loop
\* after finitely many fetch-and-add steps, the handler returns, and when
\* all W workers were forked the counter ends at exactly total + W.
Thm_C35_ScanTerminates ==
  /\ <>(spc = "returned")
  /\ \A w \in 1..MaxScanDocs :
       [](WorkerAt(w, {"fetch"}) => <>WorkerAt(w, {"exited", "reaped"}))
  /\ []((spc = "returned" /\ src = OS_OK) =>
          /\ \A w \in Workers : wpc[w] = "reaped"
          /\ next_key = stotal + sworkers)

\* A scan of two documents by two workers has returned with the counter at
\* four.
Wit_C35_ScanTerminates ==
  /\ spc = "returned" /\ src = OS_OK /\ stotal = 2 /\ sworkers = 2
  /\ next_key = 4 /\ Len(sgot) = 4

(***************************************************************************)
(* The worker count of a scan (src/server/handlers/handle_s.c, lines 81-83 *)
(* and 25-30) for totals beyond the ten workers per cpu                    *)
(***************************************************************************)
MaxClampTotal == 12
MaxClampCpus == 2

\* Worker counts a client can ask for: around the clamps, and a large one.
ClampRequested == 0..(MaxClampTotal + 1) \cup {25, 2147483647}

\* handle_s, lines 81-83: the count taken from the optional argument.
handle_s_workers(arg) ==
  IF arg.type = ARG_U32 /\ U32(arg) # 0 THEN U32(arg) ELSE 1

\* The decoded optional argument of S: absent (the zeroed slot) or a u32.
ClampArg(present, n) ==
  IF present THEN [type |-> ARG_U32, u32 |-> LE32(n), str |-> <<>>]
  ELSE ZeroArg

ClampInit ==
  /\ ProtoIdle /\ StoreIdle /\ ScanIdle /\ CacheIdle /\ ServerIdle
  /\ loop = [pc |-> "off"] /\ codec = [stage |-> "off"]
  /\ matcher = [stage |-> "off"] /\ cli = [stage |-> "off"]
  /\ rd = [pc |-> "off"] /\ lfifo = [pc |-> "off"]
  /\ \E present \in BOOLEAN, n \in ClampRequested,
        cpus \in 1..MaxClampCpus, total \in 1..MaxClampTotal :
       /\ present \/ n = 0
       /\ clamp = [pc |-> "handle_s", present |-> present, requested |-> n,
                   cpus |-> cpus, total |-> total, workers |-> 0]

\* handle_s reads the optional argument and calls scan_parallel.
ClampArgRead ==
  /\ clamp.pc = "handle_s"
  /\ clamp' = [clamp EXCEPT
                 !.pc = "scan_parallel",
                 !.workers = handle_s_workers(ClampArg(clamp.present,
                                                       clamp.requested))]
  /\ UNCHANGED <<loop, codec, matcher, cli, rd, lfifo>>
  /\ UNCHANGED nonAuxVars

\* scan_parallel clamps the count; the spawn loop then runs that often.
ClampRun ==
  /\ clamp.pc = "scan_parallel"
  /\ clamp' = [clamp EXCEPT
                 !.pc = "spawn",
                 !.workers = ClampWorkers(clamp.workers, clamp.cpus,
                                          clamp.total)]
  /\ UNCHANGED <<loop, codec, matcher, cli, rd, lfifo>>
  /\ UNCHANGED nonAuxVars

ClampNext == ClampArgRead \/ ClampRun

SpecClamp == ClampInit /\ [][ClampNext]_vars

\* C36 (worker count): the number of workers the spawn loop forks is
\* max(1, min(requested, 10 * ncpus, total)), where an absent count is a
\* requested count of 0; with the count absent or 0 it is one.
Thm_C36_WorkerCount ==
  clamp.pc = "spawn" =>
    /\ clamp.workers
         = Max(1, Min(clamp.requested, Min(10 * clamp.cpus, clamp.total)))
    /\ clamp.requested = 0 => clamp.workers = 1

\* Thirteen workers asked for twelve documents on one cpu: ten are forked.
Wit_C36_WorkerCount ==
  /\ clamp.pc = "spawn" /\ clamp.requested = 13 /\ clamp.cpus = 1
  /\ clamp.total = 12 /\ clamp.workers = 10

(***************************************************************************)
(* The listen FIFO with several clients (src/common/transport.c,           *)
(* txp_open_client, txp_write; src/common/protocol.c, proto_recv_req).     *)
(* Sizes are scaled down: the header is one byte, PIPE_BUF is PipeBuf, the *)
(* capacity of the FIFO is PipeCap. Byte i of the frame of n bytes that    *)
(* client c sends is <<c, i, n>>; the header carries n.                    *)
(***************************************************************************)
MaxClients == 3
MaxFrameLen == 3
PipeBuf == 2
PipeCap == 4

FifoClients == 1..MaxClients

\* The frame of n bytes of client c, as proto_send_req hands it to
\* txp_write.
FifoFrame(c, n) == [i \in 1..n |-> <<c, i, n>>]

\* write() on a FIFO opened with O_NONBLOCK (txp_open_client, line 135),
\* asked for n bytes with room bytes free: a request of at most PIPE_BUF
\* bytes is written whole or fails with EAGAIN; a larger one transfers
\* what fits, and fails with EAGAIN when nothing fits.
fifo_write(n, room) ==
  IF n <= PipeBuf THEN (IF room >= n THEN n ELSE -1)
  ELSE IF room > 0 THEN Min(n, room) ELSE -1

\* txp_write, lines 226-242: one turn of the loop of client c.
txp_write_iter(f, c) ==
  LET todo == f.w[c].len - f.w[c].sent
      w == fifo_write(todo, PipeCap - Len(f.buf))
  IN  IF w < 0 THEN [f EXCEPT !.w[c].spun = TRUE]
      ELSE [f EXCEPT
              !.w[c].sent = @ + w,
              !.buf = @ \o SubSeq(FifoFrame(c, f.w[c].len),
                                  f.w[c].sent + 1, f.w[c].sent + w)]

\* txp_read on the listen FIFO: read() returns the bytes that are there, at
\* most the count asked for.
fifo_read(f, count) ==
  LET k == Min(count, Len(f.buf))
      cur == f.r.cur \o SubSeq(f.buf, 1, k)
      need == (IF f.r.need = 0 THEN Head(f.buf)[3] ELSE f.r.need) - k
  IN  [f EXCEPT
         !.buf = SubSeq(@, k + 1, Len(@)),
         !.r = IF need = 0 THEN [need |-> 0, cur |-> <<>>]
               ELSE [need |-> need, cur |-> cur],
         !.frames = IF need = 0 THEN Append(@, cur) ELSE @]

FifoInit ==
  /\ ProtoIdle /\ StoreIdle /\ ScanIdle /\ CacheIdle /\ ServerIdle
  /\ loop = [pc |-> "off"] /\ codec = [stage |-> "off"]
  /\ matcher = [stage |-> "off"] /\ cli = [stage |-> "off"]
  /\ rd = [pc |-> "off"] /\ clamp = [pc |-> "off"]
  /\ \E lens \in [FifoClients -> 1..MaxFrameLen] :
       lfifo = [pc |-> "on", buf |-> <<>>,
                w |-> [c \in FifoClients |->
                         [len |-> lens[c], sent |-> 0, spun |-> FALSE]],
                r |-> [need |-> 0, cur |-> <<>>],
                frames |-> <<>>]

\* The write() of a client transfers bytes.
FifoWrite ==
  /\ lfifo.pc = "on"
  /\ \E c \in FifoClients :
       /\ lfifo.w[c].sent < lfifo.w[c].len
       /\ fifo_write(lfifo.w[c].len - lfifo.w[c].sent,
                     PipeCap - Len(lfifo.buf)) > 0
       /\ lfifo' = txp_write_iter(lfifo, c)
  /\ UNCHANGED <<loop, codec, matcher, cli, rd, clamp>>
  /\ UNCHANGED nonAuxVars

\* The write() of a client fails with EAGAIN and txp_write tries again.
FifoWriteAgain ==
  /\ lfifo.pc = "on"
  /\ \E c \in FifoClients :
       /\ lfifo.w[c].sent < lfifo.w[c].len
       /\ fifo_write(lfifo.w[c].len - lfifo.w[c].sent,
                     PipeCap - Len(lfifo.buf)) < 0
       /\ lfifo' = txp_write_iter(lfifo, c)
  /\ UNCHANGED <<loop, codec, matcher, cli, rd, clamp>>
  /\ UNCHANGED nonAuxVars

\* proto_recv_req, line 195: the server reads a header.
FifoReadHdr ==
  /\ lfifo.pc = "on" /\ lfifo.r.need = 0 /\ lfifo.buf # <<>>
  /\ lfifo' = fifo_read(lfifo, 1)
  /\ UNCHANGED <<loop, codec, matcher, cli, rd, clamp>>
  /\ UNCHANGED nonAuxVars

\* proto_recv_req, line 209: the server reads payload bytes.
FifoReadPayload ==
  /\ lfifo.pc = "on" /\ lfifo.r.need > 0 /\ lfifo.buf # <<>>
  /\ lfifo' = fifo_read(lfifo, lfifo.r.need)
  /\ UNCHANGED <<loop, codec, matcher, cli, rd, clamp>>
  /\ UNCHANGED nonAuxVars

FifoNext == FifoWrite \/ FifoWriteAgain \/ FifoReadHdr \/ FifoReadPayload

SpecFifo == FifoInit /\ [][FifoNext]_vars

\* C37 (frames are not interleaved): every frame the server has read from
\* the listen FIFO is the whole frame of one client, byte for byte.
Cex_C37_WholeFrames ==
  \A j \in 1..Len(lfifo.frames) :
    \E c \in FifoClients : lfifo.frames[j] = FifoFrame(c, lfifo.w[c].len)

\* C38 (decoder table index): arg_decoders is indexed only with a type tag
\* below ARG_COUNT, by dismantle_request on the server for the request of
\* the last pass and by dismantle_response in the client for the response
\* it received.
Cex_C38_DecoderIndex ==
  /\ \A t \in cli.indexed : t < ARG_COUNT
  /\ (pass.path \notin {"none", "recv_error", "unknown_opcode"}) =>
       \A t \in ReqIndexes(pass.req, cmd_by_opcode(pass.req.hdr.opcode).row) :
         t < ARG_COUNT

\* C39 (S and L agree): for the same content and non-empty term,
\* doc_contains_keyword returns 1 exactly when doc_count_keyword with
\* stop_at_first = 0 reports a count of at least 1.
Cex_C39_ModesAgree ==
  (matcher.stage = "ready" /\ matcher.ran = {"contains", "count"}) =>
    ((matcher.contains = 1) <=> (matcher.count >= 1))

\* The request the client built, as the server receives it.
ClientReqReceived == proto_recv_req(ReqBytes(cli.req, cli.req.hdr.len))

\* C40 (client requests fit the schema): a request that build_request
\* made from a command line command_parse accepted is accepted by the
\* server's dismantle_request under the row of the same opcode, and it
\* decodes to as many arguments of the row's types as the command line
\* had.
Thm_C40_BuiltPasses ==
  (cli.stage \in {"built", "exited"} /\ cli.failed \notin {"parse", "build"})
    =>
    /\ ClientReqReceived.rc = OS_OK
    /\ ClientReqReceived.req.hdr.opcode = cli.argv.op
    /\ dismantle_request(ClientReqReceived.req,
                         cmd_by_opcode(cli.argv.op).row).rc = OS_OK
    /\ ReqIndexes(ClientReqReceived.req, cmd_by_opcode(cli.argv.op).row)
         = {cmd_by_opcode(cli.argv.op).row.types[i] :
              i \in 1..Len(cli.argv.args)}

\* An A request with its four arguments and an S request with the optional
\* worker count were built.
Wit_C40_BuiltPasses ==
  /\ cli.stage = "built"
  /\ \/ cli.argv.op = OP_A /\ Len(cli.argv.args) = 4
     \/ cli.argv.op = OP_S /\ Len(cli.argv.args) = 2
  /\ Len(cli.req.payload) > 0

====
